---- MODULE Spec2Model ----
(***************************************************************************)
(* Reference resolution, validation and build pipeline of vnext-cli        *)
(* (src/lib/ref-resolver.js, src/create.js).                               *)
(*                                                                         *)
(* Strings of the program are sequences of symbols.  The symbols "@", "/", *)
(* "." and the digits are single characters; every other symbol stands    *)
(* for a fixed run of characters that holds none of "@", "/", "." (for     *)
(* instance "json", "Tasks", "x").  The absent value (undefined, null) of  *)
(* a string-valued field is the empty sequence, which is falsy like the    *)
(* values it stands for.                                                   *)
(*                                                                         *)
(* JSON values are records [t, s, kids]: t is "str", "obj", "arr",        *)
(* "true", "false", "undef" (no value) or "raw" (the content of a file     *)
(* that is not JSON); s the symbols of a string; kids the members of an    *)
(* object or the items of an array, in their iteration order.              *)
(*                                                                         *)
(* Spec runs the public methods of one RefResolver in any order,           *)
(* SpecResolve runs resolveRef alone in every world and with every option  *)
(* set, SpecBuild runs the build command and buildPackage step by step.    *)
(***************************************************************************)
EXTENDS Integers, Sequences, FiniteSets, TLC

(***************************************************************************)
(* Strings                                                                 *)
(***************************************************************************)
Digits == {"0", "1", "2"}
LowerSyms == {"x", "y", "w", "s", "other", "json", "undefined", "core",
              "billing", "org", "pkg", "bad"}
Null == <<>>

SubStr(s, i, j) == [n \in 1..(j - i + 1) |-> s[i + n - 1]]

StartsWith(s, p) ==
    /\ Len(s) >= Len(p)
    /\ \A i \in 1..Len(p) : s[i] = p[i]

EndsWith(s, p) ==
    /\ Len(s) >= Len(p)
    /\ \A i \in 1..Len(p) : s[Len(s) - Len(p) + i] = p[i]

\* String.prototype.includes
Includes(s, p) ==
    \E i \in 0..(Len(s) - Len(p)) : \A j \in 1..Len(p) : s[i + j] = p[j]

\* Array.prototype.includes on an array of strings
ArrIncludes(arr, x) == \E i \in 1..Len(arr) : arr[i] = x

\* Index of the last "/" of a path, 0 when it has none.
LastSlash(p) ==
    IF \E i \in 1..Len(p) : p[i] = "/"
    THEN CHOOSE i \in 1..Len(p) : p[i] = "/" /\ \A j \in (i + 1)..Len(p) : p[j] # "/"
    ELSE 0

\* path.basename(p)
Basename(p) == SubStr(p, LastSlash(p) + 1, Len(p))

\* path.basename(p, ext): the extension is removed when the base name ends
\* with it and is not the extension itself.
BasenameExt(p, ext) ==
    LET b == Basename(p)
    IN  IF EndsWith(b, ext) /\ Len(b) > Len(ext)
        THEN SubStr(b, 1, Len(b) - Len(ext))
        ELSE b

\* path.extname(p) === '.json'
IsJsonName(p) ==
    LET b == Basename(p)
    IN  Len(b) > 2 /\ EndsWith(b, <<".", "json">>)

\* path.join of two parts; an empty part is dropped.
PathJoin(a, b) ==
    IF a = <<>> THEN b ELSE IF b = <<>> THEN a ELSE a \o <<"/">> \o b

\* First index of the maximal run of digits that ends at index i
\* (i + 1 when s[i] is no digit).
RECURSIVE DigitRunStart(_, _)
DigitRunStart(s, i) ==
    IF i >= 1 /\ s[i] \in Digits THEN DigitRunStart(s, i - 1) ELSE i + 1

\* semver.valid(v) over the symbols used here: <digits>.<digits>.<digits>
\* without leading zeros (no pre-release or build symbols are in the alphabet).
NumericId(s) ==
    /\ Len(s) >= 1
    /\ \A i \in 1..Len(s) : s[i] \in Digits
    /\ (Len(s) > 1 => s[1] # "0")

SemverValid(v) ==
    \E i, j \in 1..Len(v) :
        /\ i < j
        /\ v[i] = "." /\ v[j] = "."
        /\ NumericId(SubStr(v, 1, i - 1))
        /\ NumericId(SubStr(v, i + 1, j - 1))
        /\ NumericId(SubStr(v, j + 1, Len(v)))

\* /^[a-z0-9-]+$/
KeyPatternOk(k) ==
    /\ Len(k) >= 1
    /\ \A i \in 1..Len(k) : k[i] \in LowerSyms \cup Digits \cup {"-"}

\* /^\d+\.\d+\.\d+$/
XyzPatternOk(v) ==
    \E i, j \in 1..Len(v) :
        /\ i < j
        /\ v[i] = "." /\ v[j] = "."
        /\ i > 1 /\ j > i + 1 /\ j < Len(v)
        /\ \A n \in 1..Len(v) : n \notin {i, j} => v[n] \in Digits

(***************************************************************************)
(* JSON values                                                             *)
(***************************************************************************)
Str(s) == [t |-> "str", s |-> s, kids |-> <<>>]
Obj(kids) == [t |-> "obj", s |-> <<>>, kids |-> kids]
Arr(items) == [t |-> "arr", s |-> <<>>,
               kids |-> [i \in 1..Len(items) |-> [k |-> "", v |-> items[i]]]]
Undef == [t |-> "undef", s |-> <<>>, kids |-> <<>>]
\* The content of a file that is not JSON: fs.readJSON throws on it.
NotJson == [t |-> "raw", s |-> <<>>, kids |-> <<>>]
Bool(b) == [t |-> IF b THEN "true" ELSE "false", s |-> <<>>, kids |-> <<>>]
KV(k, v) == [k |-> k, v |-> v]

HasKey(o, k) == o.t = "obj" /\ \E i \in 1..Len(o.kids) : o.kids[i].k = k

\* o[k]
Get(o, k) ==
    IF HasKey(o, k)
    THEN o.kids[CHOOSE i \in 1..Len(o.kids) : o.kids[i].k = k].v
    ELSE Undef

\* The symbols of o[k] when it is a string, Null otherwise.
GetS(o, k) == IF Get(o, k).t = "str" THEN Get(o, k).s ELSE Null

\* JavaScript truthiness of a JSON value
Truthy(v) == v.t \in {"obj", "arr", "true"} \/ (v.t = "str" /\ v.s # <<>>)

\* `${v}` of a string-valued field
Template(v) == IF v.t = "undef" THEN <<"undefined">> ELSE v.s

\* { ...o, [k]: v }
SetKey(o, k, v) ==
    IF HasKey(o, k)
    THEN Obj([i \in 1..Len(o.kids) |->
                IF o.kids[i].k = k THEN KV(k, v) ELSE o.kids[i]])
    ELSE Obj(Append(o.kids, KV(k, v)))

\* delete o[k]
DelKey(o, k) == Obj(SelectSeq(o.kids, LAMBDA m : m.k # k))

Keys(o) == {o.kids[i].k : i \in 1..Len(o.kids)}

\* The element of a one-element set.  In {F(x) : x \in {e}} the value of e
\* is computed once and x stands for it.
The(S) == CHOOSE x \in S : TRUE

(***************************************************************************)
(* State                                                                   *)
(***************************************************************************)
VARIABLES
    disk,            \* files of the working directory: path -> JSON value
    registry,        \* what the package registry serves: name -> package
    schemaDir,       \* options.schemaPath: component type -> schema
    pkgDir,          \* packages extracted under options.cacheDir
    opts,            \* options.validateReferenceConsistency / validateSchemas
    refCache,        \* this.refCache: ref -> resolved component
    compiledValidators,  \* this.compiledValidators: type -> compiled schema
    currentDomain,   \* this.currentDomain
    now,             \* the clock read by new Date()
    last,            \* the last call on the resolver and what it returned
    build,           \* the run of a build command (build / publish)
    installs         \* the invocations of ensurePackage in progress

vars == <<disk, registry, schemaDir, pkgDir, opts, refCache,
          compiledValidators, currentDomain, now, last, build, installs>>

\* The resolver's mutable state together with the parts of the machine it
\* touches, threaded through the operators below.  io is the log of the
\* file, package and validation steps performed by the current call.
RState == [refCache |-> refCache, currentDomain |-> currentDomain,
           compiledValidators |-> compiledValidators, pkgDir |-> pkgDir,
           opts |-> opts, io |-> <<>>]

Log(S, entry) == [S EXCEPT !.io = Append(@, entry)]

Ok(S, v) == [S |-> S, ok |-> TRUE, val |-> v, msg |-> <<>>]
Fail(S, m) == [S |-> S, ok |-> FALSE, val |-> Undef, msg |-> m]

\* Faulty variant: the domain of every call replaces the one bound.
BindDomainAlways(S, dom) ==
    IF dom # Null THEN [S EXCEPT !.currentDomain = dom] ELSE S

\* if (currentDomain && !this.currentDomain) this.currentDomain = currentDomain
BindDomain(S, dom) ==
    IF dom # Null /\ S.currentDomain = Null
    THEN [S EXCEPT !.currentDomain = dom] ELSE S

(***************************************************************************)
(* Reference parser                                                        *)
(***************************************************************************)
\* Faulty variant: no version is found in any file name.
extractVersionNever(filename) == Null

\* /\.(\d+\.\d+\.\d+)\.json$/
extractVersionFromFilename(filename) ==
    LET n  == Len(filename)
        e3 == n - 2
        b3 == DigitRunStart(filename, e3)
        e2 == b3 - 2
        b2 == DigitRunStart(filename, e2)
        e1 == b2 - 2
        b1 == DigitRunStart(filename, e1)
    IN  IF /\ n >= 8
           /\ filename[n] = "json" /\ filename[n - 1] = "."
           /\ b3 <= e3 /\ b3 >= 2 /\ filename[b3 - 1] = "."
           /\ b2 <= e2 /\ b2 >= 2 /\ filename[b2 - 1] = "."
           /\ b1 <= e1 /\ b1 >= 2 /\ filename[b1 - 1] = "."
        THEN SubStr(filename, b1, e3)
        ELSE Null

\* The two "/" of /^(@[^/]+\/[^/]+)\/(.+)$/: <<i, j>>, or <<0, 0>> when the
\* string does not match.
ExternalSplit(ref) ==
    LET slashes == {i \in 1..Len(ref) : ref[i] = "/"}
        ok(i, j) == /\ i \in slashes /\ j \in slashes
                    /\ i > 2 /\ j > i + 1 /\ j < Len(ref)
                    /\ \A n \in 1..(j - 1) : n # i => ref[n] # "/"
    IN  IF \E i, j \in slashes : ok(i, j)
        THEN CHOOSE p \in slashes \X slashes : ok(p[1], p[2])
        ELSE <<0, 0>>

parseRef(ref) ==
    IF ~StartsWith(ref, <<"@">>)
    THEN [ok |-> TRUE, isLocal |-> TRUE, packageName |-> Null, filePath |-> ref,
          version |-> extractVersionFromFilename(ref),
          filename |-> BasenameExt(ref, <<".", "json">>), msg |-> <<>>]
    ELSE LET p == ExternalSplit(ref)
             filePath == SubStr(ref, p[2] + 1, Len(ref))
         IN  IF p = <<0, 0>>
             THEN [ok |-> FALSE, isLocal |-> FALSE, packageName |-> Null,
                   filePath |-> Null, version |-> Null, filename |-> Null,
                   msg |-> <<"Invalid reference format: ">> \o ref]
             ELSE [ok |-> TRUE, isLocal |-> FALSE,
                   packageName |-> SubStr(ref, 1, p[2] - 1),
                   filePath |-> filePath,
                   version |-> extractVersionFromFilename(filePath),
                   filename |-> BasenameExt(filePath, <<".", "json">>),
                   msg |-> <<>>]

(***************************************************************************)
(* Reference consistency check                                             *)
(***************************************************************************)
ConsistencyPrefix(ref) ==
    <<"Reference consistency validation failed for '">> \o ref \o <<"': ">>

\* Faulty variant: only the versions are compared, the key is not.
ConsistencyVersionedNoKey(filename, content, parsedRef) ==
    LET version == Get(content, "version")
    IN  IF ~Truthy(version)
        THEN <<"filename contains version but content has no version property">>
        ELSE IF parsedRef.version # version.s
        THEN <<"filename version does not match content version">>
        ELSE <<>>

\* The filename carries a version: content must carry it too, and the
\* filename must be <key>.<version>.  Returns the error, <<>> when none.
ConsistencyVersioned(filename, content, parsedRef) ==
    LET version == Get(content, "version")
        expectedPattern == Template(Get(content, "key")) \o <<".">> \o Template(version)
    IN  IF ~Truthy(version)
        THEN <<"filename contains version but content has no version property">>
        ELSE IF filename # expectedPattern
        THEN <<"filename does not match component key and version">>
        ELSE IF parsedRef.version # version.s
        THEN <<"filename version does not match content version">>
        ELSE <<>>

\* The filename carries no version: it must be the key.
ConsistencyUnversioned(filename, content) ==
    IF filename # Template(Get(content, "key"))
    THEN <<"filename does not match component key">>
    ELSE <<>>

\* Faulty variant: the formats are not checked.
ConsistencyFormatsNone(content) == <<>>

\* The formats of content.version (when present) and content.key.
ConsistencyFormats(content) ==
    LET version == Get(content, "version")
    IN  IF Truthy(version) /\ ~SemverValid(version.s)
        THEN <<"invalid version format">>
        ELSE IF ~KeyPatternOk(Template(Get(content, "key")))
        THEN <<"invalid key format">>
        ELSE <<>>

\* Returns the error message, <<>> when the check passes.
validateReferenceConsistency(ref, content, parsedRef) ==
    LET filename == BasenameExt(parsedRef.filePath, <<".", "json">>)
        first == IF parsedRef.version # Null
                 THEN ConsistencyVersioned(filename, content, parsedRef)
                 ELSE ConsistencyUnversioned(filename, content)
        rest == ConsistencyFormats(content)
    IN  IF first # <<>> THEN ConsistencyPrefix(ref) \o first
        ELSE IF rest # <<>> THEN ConsistencyPrefix(ref) \o rest
        ELSE <<>>

(***************************************************************************)
(* Local and external resolution                                           *)
(***************************************************************************)
Stamp == Str(<<ToString(now)>>)

resolveLocalRef(S, parsedRef, dom) ==
    LET filePath == PathJoin(dom, parsedRef.filePath)
        S1 == Log(S, <<"pathExists">> \o filePath)
        S2 == Log(S1, <<"readJSON">> \o filePath)
    IN  IF filePath \notin DOMAIN disk
        THEN Fail(S1, <<"Local file not found: ">> \o filePath)
        ELSE IF disk[filePath].t = "raw"
        THEN Fail(S2, <<"Unexpected token in JSON: ">> \o filePath)
        ELSE Ok(S2, SetKey(SetKey(disk[filePath], "_resolvedFrom",
                                  Str(<<"local:">> \o parsedRef.filePath)),
                           "_resolvedAt", Stamp))

ExportCategories == <<"functions", "workflows", "tasks", "views", "schemas", "extensions">>

\* ...(exports[category] || [])
ExportList(exports, category) ==
    LET a == Get(exports, category)
    IN  IF a.t = "arr" THEN [i \in 1..Len(a.kids) |-> a.kids[i].v.s] ELSE <<>>

RECURSIVE AllExports(_, _)
AllExports(exports, n) ==
    IF n = 0 THEN <<>>
    ELSE AllExports(exports, n - 1) \o ExportList(exports, ExportCategories[n])

\* Faulty variant: the visibility of the exports is not looked at.
isComponentExportedAnyVisibility(filePath, packageConfig) ==
    LET exports == Get(packageConfig, "exports")
    IN  IF ~Truthy(exports) THEN FALSE
        ELSE ArrIncludes(AllExports(exports, Len(ExportCategories)),
                         Basename(filePath))

isComponentExported(filePath, packageConfig) ==
    LET exports == Get(packageConfig, "exports")
    IN  IF ~Truthy(exports) \/ GetS(exports, "visibility") = <<"private">>
        THEN FALSE
        ELSE ArrIncludes(AllExports(exports, Len(ExportCategories)),
                         Basename(filePath))

\* The download (npm pack, tar) and the extraction are one step here.
ensurePackage(S, packageName) ==
    LET S1 == Log(S, <<"pathExists">> \o packageName)
        S2 == Log(S1, <<"npm pack">> \o packageName)
    IN  IF packageName \in S.pkgDir
        THEN Ok(S1, Str(packageName))
        ELSE IF packageName \in DOMAIN registry /\ registry[packageName].avail
        THEN Ok([S2 EXCEPT !.pkgDir = @ \cup {packageName}], Str(packageName))
        ELSE Fail(S2, <<"Failed to download package ">> \o packageName)

resolveExternalRef(S, parsedRef) ==
    LET pk  == ensurePackage(S, parsedRef.packageName)
        pkg == registry[parsedRef.packageName]
        S1  == Log(pk.S, <<"pathExists">> \o parsedRef.packageName \o <<"/", "vnext.config.json">>)
        S2  == Log(S1, <<"readJSON">> \o parsedRef.packageName \o <<"/", "vnext.config.json">>)
        componentPath == parsedRef.packageName \o <<"/">> \o parsedRef.filePath
        S3  == Log(S2, <<"pathExists">> \o componentPath)
        S4  == Log(S3, <<"readJSON">> \o componentPath)
    IN  IF ~pk.ok THEN pk
        ELSE IF ~pkg.hasConfig
        THEN Fail(S1, <<"Package ">> \o parsedRef.packageName
                      \o <<" does not contain vnext.config.json">>)
        ELSE IF ~isComponentExported(parsedRef.filePath, pkg.config)
        THEN Fail(S2, <<"Component ">> \o parsedRef.filePath
                      \o <<" is not exported by ">> \o parsedRef.packageName)
        ELSE IF parsedRef.filePath \notin DOMAIN pkg.files
        THEN Fail(S3, <<"Component file not found: ">> \o componentPath)
        ELSE IF pkg.files[parsedRef.filePath].t = "raw"
        THEN Fail(S4, <<"Unexpected token in JSON: ">> \o componentPath)
        ELSE Ok(S4, SetKey(SetKey(SetKey(pkg.files[parsedRef.filePath],
                        "_resolvedFrom",
                        Str(parsedRef.packageName \o <<":">> \o parsedRef.filePath)),
                        "_resolvedAt", Stamp),
                        "_packageVersion", Get(pkg.config, "version")))

(***************************************************************************)
(* Validation pipeline                                                     *)
(***************************************************************************)
detectComponentType(filePath) ==
    IF Includes(filePath, <<"Tasks", "/">>) THEN "task"
    ELSE IF Includes(filePath, <<"Workflows", "/">>) THEN "workflow"
    ELSE IF Includes(filePath, <<"Functions", "/">>) THEN "function"
    ELSE IF Includes(filePath, <<"Views", "/">>) THEN "view"
    ELSE IF Includes(filePath, <<"Schemas", "/">>) THEN "schema"
    ELSE IF Includes(filePath, <<"Extensions", "/">>) THEN "extension"
    ELSE "unknown"

detectComponentTypeFromFlow(flow) ==
    IF flow = <<"sys-tasks">> THEN "task"
    ELSE IF flow = <<"sys-flows">> THEN "workflow"
    ELSE IF flow = <<"sys-functions">> THEN "function"
    ELSE IF flow = <<"sys-views">> THEN "view"
    ELSE IF flow = <<"sys-schemas">> THEN "schema"
    ELSE IF flow = <<"sys-extensions">> THEN "extension"
    ELSE "unknown"

MetadataFields == <<"_resolvedFrom", "_resolvedAt", "_packageVersion">>

cleanMetadataFields(component) ==
    DelKey(DelKey(DelKey(component, MetadataFields[1]), MetadataFields[2]),
           MetadataFields[3])

\* Faulty variant: the fields are deleted from the component itself.
UntouchedStripped(component) == cleanMetadataFields(component)

\* The caller's component after cleanMetadataFields: the fields are deleted
\* from a copy ({ ...component }), the component is as it was.
Untouched(component) == component

\* Faulty variant: a component with warnings is rejected.
WarningsThrown(S, warnings) ==
    IF warnings = <<>> THEN Ok(Log(S, <<"warnings">>), Undef)
    ELSE Fail(S, <<"Business validation failed: ", warnings[1]>>)

\* The warnings are printed.
Warnings(S, warnings) == Ok(Log(S, <<"warnings">> \o warnings), Undef)

\* The warnings of the business checks, in the order they are pushed; the
\* file path is not looked at.
performBusinessValidations(S, component, filePath) ==
    LET key == Get(component, "key")
        version == Get(component, "version")
    IN  Warnings(S,
            (IF ~Truthy(key) THEN <<"Missing required 'key' field">> ELSE <<>>)
            \o (IF Truthy(version) /\ ~XyzPatternOk(version.s)
                THEN <<"Version should follow semantic versioning (x.y.z)">>
                ELSE <<>>)
            \o (IF Truthy(key) /\ ~KeyPatternOk(key.s)
                THEN <<"Key should contain only lowercase letters, numbers, and hyphens">>
                ELSE <<>>))

ValidFlows == {<<"sys-tasks">>, <<"sys-flows">>, <<"sys-functions">>,
               <<"sys-views">>, <<"sys-schemas">>, <<"sys-extensions">>}

RequiredFields == <<"key", "version", "domain", "flow", "flowVersion">>

\* Returns the error message, <<>> when the component passes.
validateGeneralTemplate(component) ==
    LET missing == {i \in 1..Len(RequiredFields) :
                        ~Truthy(Get(component, RequiredFields[i]))}
        firstMissing == CHOOSE i \in missing : \A j \in missing : i <= j
    IN  IF missing # {}
        THEN <<"Missing required field: ", RequiredFields[firstMissing]>>
        ELSE IF ~SemverValid(GetS(component, "version"))
        THEN <<"Invalid version format: ">> \o GetS(component, "version")
        ELSE IF ~SemverValid(GetS(component, "flowVersion"))
        THEN <<"Invalid flowVersion format: ">> \o GetS(component, "flowVersion")
        ELSE IF GetS(component, "flow") \notin ValidFlows
        THEN <<"Invalid flow value: ">> \o GetS(component, "flow")
        ELSE IF Truthy(Get(component, "tags")) /\ Get(component, "tags").t # "arr"
        THEN <<"Tags must be an array">>
        ELSE IF Truthy(Get(component, "attributes"))
                /\ Get(component, "attributes").t \notin {"obj", "arr"}
        THEN <<"Attributes must be an object">>
        ELSE <<>>

RequiredSchemaFields == <<"$schema", "$id", "title", "description", "type">>

\* Faulty variant: attributes.schema is not looked at.
validateJsonSchemaNone(schema) == <<>>

validateJsonSchema(schema) ==
    LET missing == {i \in 1..Len(RequiredSchemaFields) :
                        ~Truthy(Get(schema, RequiredSchemaFields[i]))}
        firstMissing == CHOOSE i \in missing : \A j \in missing : i <= j
        inner ==
            IF schema.t \notin {"obj", "arr"}
            THEN <<"Schema must be an object">>
            ELSE IF missing # {}
            THEN <<"JSON Schema missing required field: ",
                   RequiredSchemaFields[firstMissing]>>
            ELSE IF ~StartsWith(GetS(schema, "$schema"), <<"https://", "json-schema.org/">>)
            THEN <<"Invalid $schema format. Must be a valid JSON Schema URI">>
            ELSE IF ~StartsWith(GetS(schema, "$id"), <<"https://">>)
            THEN <<"Invalid $id format. Must be a valid HTTPS URI">>
            ELSE IF Truthy(Get(schema, "properties"))
                    /\ Get(schema, "properties").t \notin {"obj", "arr"}
            THEN <<"Invalid JSON Schema structure: properties must be an object">>
            ELSE IF Truthy(Get(schema, "required"))
                    /\ Get(schema, "required").t # "arr"
            THEN <<"Invalid JSON Schema structure: required must be an array">>
            ELSE <<>>
    IN  IF inner = <<>> THEN <<>> ELSE <<"JSON Schema validation failed: ">> \o inner

ValidSchemaTypes == {<<"workflow">>, <<"task">>, <<"function">>, <<"view">>,
                     <<"schema">>, <<"extension">>}

validateSysSchemaComponent(component) ==
    LET general == validateGeneralTemplate(component)
        attributes == Get(component, "attributes")
    IN  IF general # <<>> THEN general
        ELSE IF Truthy(attributes) /\ Truthy(Get(attributes, "type"))
                /\ GetS(attributes, "type") \notin ValidSchemaTypes
        THEN <<"Invalid schema type: '">> \o GetS(attributes, "type")
        ELSE IF Truthy(attributes) /\ Truthy(Get(attributes, "schema"))
        THEN validateJsonSchema(Get(attributes, "schema"))
        ELSE <<>>

\* A schema of the schema directory is a record [required, properties]: the
\* members a component must have and (additionalProperties: false) the
\* members it may have.  The schema is relaxed where it defines both ref and
\* version.
makeVersionOptionalInSchema(schema) ==
    IF {"ref", "version"} \subseteq schema.properties
    THEN [schema EXCEPT !.required = @ \ {"version"}]
    ELSE schema

\* validate(component) of a compiled schema
SchemaAccepts(schema, component) ==
    /\ schema.required \subseteq Keys(component)
    /\ Keys(component) \subseteq schema.properties

\* Faulty variant: the domain of a sys-schemas component is not compared.
DomainMismatchNotSys(S, cleanComponent) ==
    /\ GetS(cleanComponent, "flow") # <<"sys-schemas">>
    /\ Truthy(Get(cleanComponent, "domain"))
    /\ S.currentDomain # Null
    /\ GetS(cleanComponent, "domain") # S.currentDomain

\* component.domain is set, a domain is bound, and they differ.
DomainMismatch(S, cleanComponent) ==
    /\ Truthy(Get(cleanComponent, "domain"))
    /\ S.currentDomain # Null
    /\ GetS(cleanComponent, "domain") # S.currentDomain

\* Faulty variant: for a schema that cannot be loaded, one that requires
\* the members of the general template is taken.
loadSchemaForValidationFallback(componentType) ==
    IF componentType \notin DOMAIN schemaDir \/ schemaDir[componentType] = NotJson
    THEN [required |-> {"key", "version", "domain", "flow", "flowVersion"},
          properties |-> {"key", "version", "domain", "flow", "flowVersion",
                          "tags", "attributes"}]
    ELSE schemaDir[componentType]

\* The schema of a component type, Undef when the schema directory has no
\* file for it or the file is not JSON.
loadSchemaForValidation(componentType) ==
    IF componentType \notin DOMAIN schemaDir \/ schemaDir[componentType] = NotJson
    THEN Undef
    ELSE schemaDir[componentType]

\* The function returns nothing; the value of the result is the caller's
\* component as the call leaves it.
validateComponentSchema(S, component, filePath) ==
    LET componentType == detectComponentType(filePath)
        cleanComponent == cleanMetadataFields(component)
        domain == Get(cleanComponent, "domain")
        sys == validateSysSchemaComponent(cleanComponent)
        S1 == Log(S, <<"schema">> \o filePath)
        S2 == Log(S1, <<"pathExists", componentType, "-definition.schema.json">>)
        S3 == Log(S2, <<"readJSON", componentType, "-definition.schema.json">>)
        cached == componentType \in DOMAIN S.compiledValidators
        schema == loadSchemaForValidation(componentType)
        compiled == IF cached THEN S.compiledValidators[componentType]
                    ELSE makeVersionOptionalInSchema(schema)
        S4 == IF cached THEN S1
              ELSE [S3 EXCEPT !.compiledValidators =
                       [ty \in DOMAIN @ \cup {componentType} |->
                           IF ty = componentType THEN compiled ELSE @[ty]]]
    IN  IF DomainMismatch(S, cleanComponent)
        THEN Fail(S1, <<"Domain mismatch: expected '">> \o S.currentDomain
                     \o <<"', found '">> \o domain.s \o <<"'">>)
        ELSE IF GetS(cleanComponent, "flow") = <<"sys-schemas">>
        THEN IF sys = <<>> THEN Ok(S1, Untouched(component)) ELSE Fail(S1, sys)
        ELSE IF ~cached /\ schema = Undef
        THEN Ok(IF componentType \in DOMAIN schemaDir THEN S3 ELSE S2,
                Untouched(component))
        ELSE IF ~SchemaAccepts(compiled, cleanComponent)
        THEN Fail(S4, <<"Schema validation failed for ", componentType, " component">>)
        ELSE The({IF business.ok THEN Ok(business.S, Untouched(component))
                  ELSE business :
                  business \in {performBusinessValidations(S4, cleanComponent,
                                                           filePath)}})

(***************************************************************************)
(* resolveRef                                                              *)
(***************************************************************************)
\* Faulty variant: the error is re-thrown without the ref.
ResolveErrorBare(ref, msg) == <<"Failed to resolve reference: ">> \o msg

ResolveError(ref, msg) == <<"Failed to resolve reference '">> \o ref \o <<"': ">> \o msg

\* Faulty variant: the cache is never consulted.
CacheHitNever(S, ref) == FALSE

CacheHit(S, ref) == ref \in DOMAIN S.refCache

\* Faulty variant: a resolved component is not put into the cache.
ValidateAndCacheNoStore(S1, ref, parsedRef, content) ==
    The({IF ~schema.ok THEN Fail(schema.S, ResolveError(ref, schema.msg))
         ELSE Ok(schema.S, schema.val) :
         schema \in {IF S1.opts.validateSchemas
                     THEN validateComponentSchema(S1, content.val, parsedRef.filePath)
                     ELSE Ok(S1, content.val)}})

\* Steps 4 and 5 of resolveRef: the schema check and the cache entry.  The
\* object cached and returned is the one that was handed to the check.
ValidateAndCache(S1, ref, parsedRef, content) ==
    The({IF ~schema.ok THEN Fail(schema.S, ResolveError(ref, schema.msg))
         ELSE Ok([schema.S EXCEPT !.refCache =
                     [r \in DOMAIN @ \cup {ref} |->
                         IF r = ref THEN schema.val ELSE @[r]]],
                 schema.val) :
         schema \in {IF S1.opts.validateSchemas
                     THEN validateComponentSchema(S1, content.val, parsedRef.filePath)
                     ELSE Ok(S1, content.val)}})

\* Faulty variant: the schema check runs before the consistency check.
CheckContentSchemaFirst(ref, parsedRef, content) ==
    LET checked == content.S.opts.validateReferenceConsistency
        consistency == IF checked
                       THEN validateReferenceConsistency(ref, content.val, parsedRef)
                       ELSE <<>>
    IN  IF ~content.ok THEN Fail(content.S, ResolveError(ref, content.msg))
        ELSE The({IF ~schema.ok THEN Fail(schema.S, ResolveError(ref, schema.msg))
                  ELSE IF consistency # <<>>
                  THEN Fail(Log(schema.S, <<"consistency">> \o ref),
                            ResolveError(ref, consistency))
                  ELSE Ok([schema.S EXCEPT
                              !.io = IF checked THEN Append(@, <<"consistency">> \o ref)
                                     ELSE @,
                              !.refCache =
                                  [r \in DOMAIN @ \cup {ref} |->
                                      IF r = ref THEN schema.val ELSE @[r]]],
                          schema.val) :
                  schema \in {IF content.S.opts.validateSchemas
                              THEN validateComponentSchema(content.S, content.val,
                                                           parsedRef.filePath)
                              ELSE Ok(content.S, content.val)}})

\* Step 3 of resolveRef, on the content that was read, and what follows it.
CheckContent(ref, parsedRef, content) ==
    LET checked == content.S.opts.validateReferenceConsistency
        consistency == IF checked
                       THEN validateReferenceConsistency(ref, content.val, parsedRef)
                       ELSE <<>>
        S1 == IF checked THEN Log(content.S, <<"consistency">> \o ref) ELSE content.S
    IN  IF ~content.ok THEN Fail(content.S, ResolveError(ref, content.msg))
        ELSE IF consistency # <<>> THEN Fail(S1, ResolveError(ref, consistency))
        ELSE ValidateAndCache(S1, ref, parsedRef, content)

resolveRef(S, ref, dom) ==
    LET S0 == BindDomain(S, dom)
        parsedRef == parseRef(ref)
    IN  IF CacheHit(S0, ref) THEN Ok(S0, S0.refCache[ref])
        ELSE IF ~parsedRef.ok THEN Fail(S0, ResolveError(ref, parsedRef.msg))
        ELSE The({CheckContent(ref, parsedRef, content) :
                  content \in {IF parsedRef.isLocal
                               THEN resolveLocalRef(S0, parsedRef, dom)
                               ELSE resolveExternalRef(S0, parsedRef)}})

(***************************************************************************)
(* Recursive tree walker                                                   *)
(***************************************************************************)
NoRef == [format |-> "none", identifier |-> <<>>, componentType |-> ""]

detectReferenceFormat(obj) ==
    LET ref == Get(obj, "ref")
        isRefString == Truthy(ref) /\ ref.t = "str"
    IN  IF isRefString /\ ~StartsWith(ref.s, <<"@">>)
        THEN [format |-> "local", identifier |-> ref.s,
              componentType |-> detectComponentType(ref.s)]
        ELSE IF isRefString /\ StartsWith(ref.s, <<"@">>)
        THEN [format |-> "external", identifier |-> ref.s,
              componentType |-> detectComponentType(ref.s)]
        ELSE IF /\ Truthy(Get(obj, "key")) /\ Truthy(Get(obj, "version"))
                /\ Truthy(Get(obj, "flow")) /\ Truthy(Get(obj, "domain"))
                /\ ~Truthy(ref)
        THEN [format |-> "plain",
              identifier |-> Template(Get(obj, "domain")) \o <<"/">>
                             \o Template(Get(obj, "flow")) \o <<"/">>
                             \o Template(Get(obj, "key")) \o <<".">>
                             \o Template(Get(obj, "version")),
              componentType |-> detectComponentTypeFromFlow(GetS(obj, "flow"))]
        ELSE NoRef

\* Faulty variant: the formats of version and key are not checked.
validatePlainReferenceAnyFormat(S, obj, dom) ==
    IF ~Truthy(Get(obj, "key"))
    THEN Fail(S, <<"Plain reference missing required property: key">>)
    ELSE IF ~Truthy(Get(obj, "version"))
    THEN Fail(S, <<"Plain reference missing required property: version">>)
    ELSE IF ~Truthy(Get(obj, "domain"))
    THEN Fail(S, <<"Plain reference missing required property: domain">>)
    ELSE Ok(S, SetKey(SetKey(obj, "_resolvedFrom", Str(<<"plain-reference">>)),
                      "_resolvedAt", Stamp))

validatePlainReference(S, obj, dom) ==
    IF ~Truthy(Get(obj, "key"))
    THEN Fail(S, <<"Plain reference missing required property: key">>)
    ELSE IF ~Truthy(Get(obj, "version"))
    THEN Fail(S, <<"Plain reference missing required property: version">>)
    ELSE IF ~Truthy(Get(obj, "domain"))
    THEN Fail(S, <<"Plain reference missing required property: domain">>)
    ELSE IF ~SemverValid(GetS(obj, "version"))
    THEN Fail(S, <<"Invalid version format in plain reference">>)
    ELSE IF ~KeyPatternOk(GetS(obj, "key"))
    THEN Fail(S, <<"Invalid key format in plain reference">>)
    ELSE Ok(S, SetKey(SetKey(obj, "_resolvedFrom", Str(<<"plain-reference">>)),
                      "_resolvedAt", Stamp))

NoContext == [isInAttributes |-> FALSE, isInSchemaDefinition |-> FALSE]

\* Faulty variant: entering attributes.schema is not noticed.
ChildContextNoSchema(context, key) ==
    [isInAttributes |-> context.isInAttributes \/ key = "attributes",
     isInSchemaDefinition |-> context.isInSchemaDefinition]

\* The context handed to the child under member name key.
ChildContext(context, key) ==
    [isInAttributes |-> context.isInAttributes \/ key = "attributes",
     isInSchemaDefinition |-> context.isInSchemaDefinition
                              \/ (key = "schema" /\ context.isInAttributes)]

\* Faulty variant: the entry says when the reference was resolved.
SuccessEntryWithTime(refInfo, resolved) ==
    [ref |-> refInfo.identifier,
     resolved |-> GetS(resolved, "_resolvedAt"),
     status |-> "success", error |-> <<>>, format |-> refInfo.format,
     key |-> Get(resolved, "key"), version |-> Get(resolved, "version"),
     domain |-> Get(resolved, "domain"), flow |-> Get(resolved, "flow"),
     componentType |-> IF refInfo.componentType # "" THEN refInfo.componentType
                       ELSE detectComponentTypeFromFlow(GetS(resolved, "flow"))]

SuccessEntry(refInfo, resolved) ==
    [ref |-> refInfo.identifier,
     resolved |-> IF Truthy(Get(resolved, "_resolvedFrom"))
                  THEN GetS(resolved, "_resolvedFrom") ELSE <<"plain-reference">>,
     status |-> "success", error |-> <<>>, format |-> refInfo.format,
     key |-> Get(resolved, "key"), version |-> Get(resolved, "version"),
     domain |-> Get(resolved, "domain"), flow |-> Get(resolved, "flow"),
     componentType |-> IF refInfo.componentType # "" THEN refInfo.componentType
                       ELSE detectComponentTypeFromFlow(GetS(resolved, "flow"))]

ErrorEntry(refInfo, msg) ==
    [ref |-> refInfo.identifier, resolved |-> Null, status |-> "error",
     error |-> msg, format |-> refInfo.format,
     key |-> Undef, version |-> Undef, domain |-> Undef, flow |-> Undef,
     componentType |-> ""]

\* Faulty variant: a failed reference is recorded but valid stays as it was.
ClassifiedKeepsValid(A, refInfo, r, path) ==
    IF r.ok
    THEN [S |-> r.S,
          results |-> [A.results EXCEPT
              !.resolvedRefs = Append(@, SuccessEntry(refInfo, r.val)),
              !.visited = Append(@, path)]]
    ELSE [S |-> r.S,
          results |-> [A.results EXCEPT
              !.errors = Append(@, [ref |-> refInfo.identifier, error |-> r.msg]),
              !.resolvedRefs = Append(@, ErrorEntry(refInfo, r.msg)),
              !.visited = Append(@, path)]]

\* The accumulator A is [S, results]; results.visited lists, for every
\* resolvedRefs entry, the place in the document of the object that
\* produced it (it is not part of the program's result).
Classified(A, refInfo, r, path) ==
    IF r.ok
    THEN [S |-> r.S,
          results |-> [A.results EXCEPT
              !.resolvedRefs = Append(@, SuccessEntry(refInfo, r.val)),
              !.visited = Append(@, path)]]
    ELSE [S |-> r.S,
          results |-> [A.results EXCEPT
              !.valid = FALSE,
              !.errors = Append(@, [ref |-> refInfo.identifier, error |-> r.msg]),
              !.resolvedRefs = Append(@, ErrorEntry(refInfo, r.msg)),
              !.visited = Append(@, path)]]

\* Faulty variant: after a failed reference nothing more is classified.
ClassifyFailFast(A, obj, dom, path) ==
    LET refInfo == detectReferenceFormat(obj)
    IN  IF refInfo = NoRef \/ ~A.results.valid THEN A
        ELSE The({Classified(A, refInfo, r, path) :
                  r \in {IF refInfo.format = "plain"
                         THEN validatePlainReference(A.S, obj, dom)
                         ELSE resolveRef(A.S, refInfo.identifier, dom)}})

Classify(A, obj, dom, path) ==
    LET refInfo == detectReferenceFormat(obj)
    IN  IF refInfo = NoRef THEN A
        ELSE The({Classified(A, refInfo, r, path) :
                  r \in {IF refInfo.format = "plain"
                         THEN validatePlainReference(A.S, obj, dom)
                         ELSE resolveRef(A.S, refInfo.identifier, dom)}})

RECURSIVE validateReferencesRecursive(_, _, _, _, _)
RECURSIVE WalkMembers(_, _, _, _, _, _)

\* The members of obj from the i-th on, in order; a member named ref is
\* skipped unless obj is an array.
WalkMembers(A, obj, i, dom, context, path) ==
    IF i > Len(obj.kids) THEN A
    ELSE LET m == obj.kids[i]
         IN  The({WalkMembers(A1, obj, i + 1, dom, context, path) :
                  A1 \in {IF obj.t = "arr"
                          THEN validateReferencesRecursive(A, m.v, dom, context,
                                                           Append(path, "[]"))
                          ELSE IF m.k # "ref"
                          THEN validateReferencesRecursive(A, m.v, dom,
                                   ChildContext(context, m.k), Append(path, m.k))
                          ELSE A}})

validateReferencesRecursive(A, obj, dom, context, path) ==
    IF obj.t \notin {"obj", "arr"} THEN A
    ELSE IF obj.t = "arr" THEN WalkMembers(A, obj, 1, dom, context, path)
    ELSE IF context.isInSchemaDefinition THEN A
    ELSE The({WalkMembers(A1, obj, 1, dom, context, path) :
              A1 \in {Classify(A, obj, dom, path)}})

CountStatus(resolvedRefs, status) ==
    Cardinality({i \in 1..Len(resolvedRefs) : resolvedRefs[i].status = status})

EmptyResults ==
    [valid |-> TRUE, errors |-> <<>>, resolvedRefs |-> <<>>, visited |-> <<>>,
     validationDetails |-> [total |-> 0, successful |-> 0, failed |-> 0,
                            skipped |-> 0]]

Summary(A) ==
    LET rr == A.results.resolvedRefs
    IN  [S |-> A.S,
         results |-> [A.results EXCEPT !.validationDetails =
             [total |-> Len(rr),
              successful |-> CountStatus(rr, "success"),
              failed |-> CountStatus(rr, "error"),
              skipped |-> CountStatus(rr, "skipped")]]]

validateAllReferences(S, obj, dom) ==
    LET S0 == BindDomain(S, dom)
    IN  The({Summary(A) :
             A \in {validateReferencesRecursive([S |-> S0, results |-> EmptyResults],
                                                obj, dom, NoContext, <<>>)}})

(***************************************************************************)
(* Build transformer                                                       *)
(***************************************************************************)
RECURSIVE resolveReferencesToPayload(_, _, _)
RECURSIVE PayloadMembers(_, _, _, _, _)

\* The members of obj from the i-th on, rewritten in order; out collects them.
PayloadMembers(S, obj, i, dom, out) ==
    IF i > Len(obj.kids) THEN [S |-> S, val |-> [obj EXCEPT !.kids = out]]
    ELSE The({PayloadMembers(r.S, obj, i + 1, dom,
                             Append(out, KV(obj.kids[i].k, r.val))) :
              r \in {resolveReferencesToPayload(S, obj.kids[i].v, dom)}})

\* Faulty variant: the resolved component is inlined whole.
PayloadWhole(resolvedComponent) == resolvedComponent

\* const payload = { key, version, domain, flow } of the resolved component
Payload(resolvedComponent) ==
    Obj(<<KV("key", Get(resolvedComponent, "key")),
          KV("version", Get(resolvedComponent, "version")),
          KV("domain", Get(resolvedComponent, "domain")),
          KV("flow", Get(resolvedComponent, "flow"))>>)

\* console.log(`Resolving ref: ${obj.ref}`)
Resolving(ref) == <<"Resolving ref:">> \o ref

resolveReferencesToPayload(S, obj, dom) ==
    LET ref == Get(obj, "ref")
    IN  IF obj.t \notin {"obj", "arr"} THEN [S |-> S, val |-> obj]
        ELSE IF obj.t = "obj" /\ Truthy(ref) /\ ref.t = "str"
        THEN The({[S |-> r.S, val |-> IF r.ok THEN Payload(r.val) ELSE obj] :
                  r \in {resolveRef(Log(S, Resolving(ref.s)), ref.s, dom)}})
        ELSE PayloadMembers(S, obj, 1, dom, <<>>)

\* What fs.writeJSON leaves in the file: JSON.stringify drops the members
\* of an object whose value is undefined.
RECURSIVE writeJSON(_)
writeJSON(v) ==
    IF v.t = "obj"
    THEN LET kept == SelectSeq(v.kids, LAMBDA m : m.v.t # "undef")
         IN  Obj([i \in 1..Len(kept) |-> KV(kept[i].k, writeJSON(kept[i].v))])
    ELSE IF v.t = "arr"
    THEN [v EXCEPT !.kids = [i \in 1..Len(v.kids) |->
                                KV("", writeJSON(v.kids[i].v))]]
    ELSE v

(***************************************************************************)
(* The files, packages and schemas the runs below work on                  *)
(***************************************************************************)
Core == <<"core">>
Billing == <<"billing">>
V100 == <<"1", ".", "0", ".", "0">>
V200 == <<"2", ".", "0", ".", "0">>
VBad == <<"bad">>

RefLegacy == <<"Tasks", "/", "x", ".", "1", ".", "0", ".", "0", ".", "json">>
RefNew == <<"Tasks", "/", "x", ".", "json">>
RefInSchema == <<"Tasks", "/", "y", ".", "json">>
PkgName == <<"@", "org", "/", "pkg">>
RefExt == PkgName \o <<"/">> \o RefNew
RefMalformed == <<"@", "org", "/", "x", ".", "json">>
XJson == <<"x", ".", "json">>

\* A JSON Schema document that holds objects shaped like references.
SchemaDocument ==
    Obj(<<KV("$schema", Str(<<"https://", "json-schema.org/", "draft">>)),
          KV("$id", Str(<<"https://", "schemas">>)),
          KV("title", Str(<<"title">>)),
          KV("description", Str(<<"description">>)),
          KV("type", Str(<<"object">>)),
          KV("properties",
             Obj(<<KV("task", Obj(<<KV("ref", Str(RefInSchema))>>)),
                   KV("examples",
                      Arr(<<Obj(<<KV("key", Str(<<"BAD KEY">>)),
                                  KV("version", Str(VBad)),
                                  KV("domain", Str(Billing)),
                                  KV("flow", Str(<<"sys-tasks">>))>>)>>))>>))>>)

Component(key, version, domain, flow) ==
    Obj(SelectSeq(
        <<KV("key", Str(key)), KV("version", Str(version)),
          KV("domain", Str(domain)), KV("flow", Str(flow)),
          KV("flowVersion", Str(V100)),
          KV("attributes",
             IF flow = <<"sys-schemas">>
             THEN Obj(<<KV("type", Str(<<"task">>)), KV("schema", SchemaDocument)>>)
             ELSE Str(<<>>))>>,
        LAMBDA m : m.v.s # <<>> \/ m.v.t = "obj"))

Targets ==
    {Component(k, v, d, f) :
        k \in {<<"x">>, <<"y">>}, v \in {Null, V100, V200, VBad},
        d \in {Core, Billing}, f \in {<<"sys-tasks">>, <<"sys-schemas">>}}

GoodTarget == Component(<<"x">>, V100, Core, <<"sys-tasks">>)

ComponentProperties == {"key", "version", "domain", "flow", "flowVersion",
                        "tags", "attributes"}

\* The schema directories: none, one whose task schema is not JSON, one
\* whose task schema requires a version, one whose task schema does not.
SchemaDirs ==
    {<<>>,
     [ty \in {"task"} |-> NotJson],
     [ty \in {"task"} |-> [required |-> {"key", "domain", "flow", "flowVersion"},
                           properties |-> ComponentProperties]],
     [ty \in {"task"} |-> [required |-> {"key", "version", "domain", "flow",
                                         "flowVersion"},
                           properties |-> ComponentProperties]]}

DefaultSchemaDir ==
    [ty \in {"task"} |-> [required |-> {"key", "domain", "flow", "flowVersion"},
                          properties |-> ComponentProperties]]

Manifest(exports) == Obj(<<KV("domain", Str(Core)), KV("version", Str(V100))>>
                         \o exports)

\* The manifests of the external package.
Manifests ==
    {Manifest(<<>>),
     Manifest(<<KV("exports", Obj(<<KV("visibility", Str(<<"private">>)),
                                    KV("tasks", Arr(<<Str(XJson)>>))>>))>>),
     Manifest(<<KV("exports", Obj(<<KV("visibility", Str(<<"public">>)),
                                    KV("tasks", Arr(<<Str(XJson)>>))>>))>>),
     Manifest(<<KV("exports", Obj(<<KV("visibility", Str(<<"public">>)),
                                    KV("functions", Arr(<<Str(XJson)>>))>>))>>),
     Manifest(<<KV("exports", Obj(<<KV("visibility", Str(<<"public">>)),
                                    KV("tasks", Arr(<<Str(<<"other", ".", "json">>)>>))>>))>>)}

PublicManifest ==
    Manifest(<<KV("exports", Obj(<<KV("visibility", Str(<<"public">>)),
                                   KV("tasks", Arr(<<Str(XJson)>>))>>))>>)

Package(avail, hasConfig, config, target) ==
    [avail |-> avail, hasConfig |-> hasConfig, config |-> config,
     files |-> [f \in {RefNew} |-> target]]

\* The worlds of the resolver runs: every target under the public manifest,
\* and every manifest (and a missing manifest, and a failing download) for a
\* target of either domain.
Worlds ==
    {[target |-> t, package |-> Package(TRUE, TRUE, PublicManifest, t),
      schemaDir |-> DefaultSchemaDir] : t \in Targets}
    \cup {[target |-> t, package |-> Package(TRUE, TRUE, m, t),
           schemaDir |-> DefaultSchemaDir] :
             t \in {GoodTarget, Component(<<"x">>, V100, Billing, <<"sys-tasks">>)},
             m \in Manifests}
    \cup {[target |-> t, package |-> Package(a, c, PublicManifest, t),
           schemaDir |-> DefaultSchemaDir] :
             t \in {GoodTarget}, a \in BOOLEAN, c \in BOOLEAN}
    \cup {[target |-> t, package |-> Package(TRUE, TRUE, PublicManifest, t),
           schemaDir |-> sd] :
             t \in {GoodTarget, Component(<<"x">>, Null, Core, <<"sys-tasks">>)},
             sd \in SchemaDirs}

LocalDisk(target) ==
    [f \in {PathJoin(Core, RefLegacy), PathJoin(Core, RefNew)} |-> target]

(***************************************************************************)
(* loadValidationConfig                                                    *)
(***************************************************************************)
loadValidationConfig(S, config) ==
    LET rr == Get(config, "referenceResolution")
        S1 == IF Truthy(Get(config, "domain"))
              THEN [S EXCEPT !.currentDomain = GetS(config, "domain")] ELSE S
    IN  IF config.t = "raw" THEN S
        ELSE IF Truthy(rr)
        THEN [S1 EXCEPT !.opts =
                 [validateReferenceConsistency |->
                      Get(rr, "validateReferenceConsistency").t # "false",
                  validateSchemas |-> Get(rr, "validateSchemas").t # "false"]]
        ELSE S1

\* The vnext.config.json files handed to loadValidationConfig.
Configs ==
    {NotJson,
     Obj(<<KV("domain", Str(Core))>>),
     Obj(<<KV("domain", Str(Billing)), KV("referenceResolution", Obj(<<>>))>>),
     Obj(<<KV("domain", Str(Core)),
           KV("referenceResolution",
              Obj(<<KV("validateReferenceConsistency", Bool(FALSE)),
                    KV("validateSchemas", Bool(FALSE))>>))>>),
     Obj(<<KV("referenceResolution",
              Obj(<<KV("validateSchemas", Bool(FALSE))>>))>>)}

(***************************************************************************)
(* Calls on one resolver instance                                          *)
(***************************************************************************)
MaxCalls == 2

Options == [validateReferenceConsistency : BOOLEAN, validateSchemas : BOOLEAN]

Refs == {RefLegacy, RefNew, RefExt, RefMalformed}
Domains == {Core, Billing}

\* The documents handed to validateAllReferences: a workflow that refers to
\* the three targets, and the schema component of the world's kind.
WorkflowDoc ==
    Obj(<<KV("key", Str(<<"w">>)), KV("version", Str(V100)),
          KV("domain", Str(Core)), KV("flow", Str(<<"sys-flows">>)),
          KV("attributes",
             Obj(<<KV("tasks", Arr(<<Obj(<<KV("ref", Str(RefLegacy))>>),
                                     Obj(<<KV("ref", Str(RefNew))>>)>>)),
                   KV("remote", Obj(<<KV("ref", Str(RefExt))>>))>>))>>)

SchemaDoc ==
    Obj(<<KV("key", Str(<<"s">>)), KV("version", Str(V100)),
          KV("domain", Str(Core)), KV("flow", Str(<<"sys-schemas">>)),
          KV("flowVersion", Str(V100)),
          KV("attributes",
             Obj(<<KV("type", Str(<<"task">>)),
                   KV("task", Obj(<<KV("ref", Str(RefLegacy))>>)),
                   KV("schema", SchemaDocument)>>))>>)

\* A document that refers to each of two components twice.
TwiceDoc ==
    Obj(<<KV("first", Arr(<<Obj(<<KV("ref", Str(RefLegacy))>>),
                            Obj(<<KV("ref", Str(RefNew))>>)>>)),
          KV("second", Arr(<<Obj(<<KV("ref", Str(RefNew))>>),
                             Obj(<<KV("ref", Str(RefLegacy))>>)>>))>>)

\* A workflow whose attributes hold references under a member named schema,
\* directly and further down.
NestedDoc ==
    Obj(<<KV("key", Str(<<"w">>)), KV("version", Str(V100)),
          KV("domain", Str(Core)), KV("flow", Str(<<"sys-flows">>)),
          KV("attributes",
             Obj(<<KV("schema", Obj(<<KV("ref", Str(RefNew))>>)),
                   KV("config",
                      Obj(<<KV("schema",
                               Obj(<<KV("task", Obj(<<KV("ref", Str(RefLegacy))>>))>>))>>))>>))>>)

\* A component with a malformed key and version, in which an object with a
\* ref holds another such object.
MalformedDoc ==
    Obj(<<KV("key", Str(<<"BAD KEY">>)), KV("version", Str(VBad)),
          KV("domain", Str(Core)), KV("flow", Str(<<"sys-tasks">>)),
          KV("task", Obj(<<KV("ref", Str(RefNew)),
                           KV("fallback", Obj(<<KV("ref", Str(RefLegacy))>>))>>))>>)

Documents == {WorkflowDoc, SchemaDoc, TwiceDoc, NestedDoc, MalformedDoc}

NoBuild == [pc |-> "none"]

Call(op, ref, dom, doc, r, results) ==
    [op |-> op, ref |-> ref, dom |-> dom, doc |-> doc,
     pre |-> [refCache |-> refCache, currentDomain |-> currentDomain, opts |-> opts,
              compiledValidators |-> compiledValidators],
     ok |-> r.ok, val |-> r.val, msg |-> r.msg, io |-> r.S.io,
     results |-> results]

Adopt(S) ==
    /\ refCache' = S.refCache
    /\ currentDomain' = S.currentDomain
    /\ compiledValidators' = S.compiledValidators
    /\ pkgDir' = S.pkgDir
    /\ opts' = S.opts

DefaultOptions == [validateReferenceConsistency |-> TRUE, validateSchemas |-> TRUE]

\* The callers of ensurePackage: two processes that share the cache
\* directory, or two calls in flight in one process.
Callers == {1, 2}

\* No invocation of ensurePackage is in progress and none has returned;
\* packageCacheDir and the temp directory are empty.  content is what
\* packageCacheDir holds and tar whether temp/<tarFile> exists; madeBy,
\* overlap, failed and returns are not state of the program: who created
\* the directory that exists, which invocations ran while another did,
\* which threw, and what each returned with the directory as it then was.
NoInstalls ==
    [content |-> "absent", tar |-> FALSE, madeBy |-> <<>>, failed |-> {},
     inv |-> [p \in Callers |-> [pc |-> "idle", run |-> 0, overlap |-> FALSE]],
     returns |-> <<>>]

\* A resolver just constructed with options o, in one of the worlds ws.
Fresh(ws, os) ==
    /\ \E w \in ws :
        /\ disk = LocalDisk(w.target)
        /\ registry = [n \in {PkgName} |-> w.package]
        /\ schemaDir = w.schemaDir
    /\ pkgDir = {}
    /\ installs = NoInstalls
    /\ opts \in os
    /\ refCache = <<>>
    /\ compiledValidators = <<>>
    /\ currentDomain = Null
    /\ now = 0
    /\ last = Call("new", Null, Null, Undef, Ok(RState, Undef), EmptyResults)
    /\ build = NoBuild

\* The worlds of the runs that mix the calls: a target of either domain and
\* of either kind, one that does not match its file names, one without version.
SmallWorlds ==
    {[target |-> t, package |-> Package(TRUE, TRUE, PublicManifest, t),
      schemaDir |-> DefaultSchemaDir] :
        t \in {GoodTarget,
                Component(<<"x">>, V100, Billing, <<"sys-tasks">>),
                Component(<<"x">>, V100, Core, <<"sys-schemas">>),
                Component(<<"x">>, V100, Billing, <<"sys-schemas">>),
                Component(<<"y">>, V100, Core, <<"sys-tasks">>),
                Component(<<"x">>, Null, Core, <<"sys-tasks">>)}}

Init == Fresh(SmallWorlds, {DefaultOptions})

ResolveRef(ref, dom) ==
    /\ now < MaxCalls
    /\ \E r \in {resolveRef(RState, ref, dom)} :
           /\ Adopt(r.S)
           /\ last' = Call("resolveRef", ref, dom, Undef, r, EmptyResults)
    /\ now' = now + 1
    /\ UNCHANGED <<installs, disk, registry, schemaDir, build>>

ValidateComponentSchema(component, filePath) ==
    /\ now < MaxCalls
    /\ \E r \in {validateComponentSchema(RState, component, filePath)} :
           /\ Adopt(r.S)
           /\ last' = Call("validateComponentSchema", filePath, Null, component,
                           r, EmptyResults)
    /\ now' = now + 1
    /\ UNCHANGED <<installs, disk, registry, schemaDir, build>>

ValidateAllReferences(doc, dom) ==
    /\ now < MaxCalls
    /\ \E r \in {validateAllReferences(RState, doc, dom)} :
           /\ Adopt(r.S)
           /\ last' = Call("validateAllReferences", Null, dom, doc,
                           Ok(r.S, Undef), r.results)
    /\ now' = now + 1
    /\ UNCHANGED <<installs, disk, registry, schemaDir, build>>

LoadValidationConfig(config) ==
    /\ now < MaxCalls
    /\ \E S \in {loadValidationConfig(RState, config)} :
           /\ Adopt(S)
           /\ last' = Call("loadValidationConfig", Null, Null, config,
                           Ok(S, Undef), EmptyResults)
    /\ now' = now + 1
    /\ UNCHANGED <<installs, disk, registry, schemaDir, build>>

Next ==
    \/ \E ref \in Refs, dom \in Domains : ResolveRef(ref, dom)
    \/ ResolveRef(RefNew, Null)
    \/ \E filePath \in {RefNew, XJson} :
          ValidateComponentSchema(disk[PathJoin(Core, RefNew)], filePath)
    \/ \E doc \in Documents, dom \in Domains : ValidateAllReferences(doc, dom)
    \/ \E config \in Configs : LoadValidationConfig(config)

Spec == Init /\ [][Next]_vars

\* resolveRef alone, on a resolver constructed with any options, in every world.
InitResolve == Fresh(Worlds, Options)

NextResolve == \E ref \in Refs, dom \in Domains : ResolveRef(ref, dom)

SpecResolve == InitResolve /\ [][NextResolve]_vars

(***************************************************************************)
(* parseRef on ref strings                                                 *)
(***************************************************************************)
MaxPrefix == 5

\* The strings of "@", "/" and a name, of at most n symbols.
RECURSIVE Prefixes(_)
Prefixes(n) ==
    IF n = 0 THEN {<<>>}
    ELSE Prefixes(n - 1)
         \cup {Append(q, c) : q \in Prefixes(n - 1), c \in {"@", "/", "x"}}

\* How a ref string may end: with a version suffix, with something close
\* to one, or without.
Endings ==
    {<<>>,
     <<".", "json">>,
     <<".", "1", ".", "0", ".", "0", ".", "json">>,
     <<".", "1", "2", ".", "0", ".", "1", ".", "json">>,
     <<".", "1", ".", "0", ".", "0", ".", "0", ".", "json">>,
     <<".", "1", ".", "0", ".", "json">>,
     <<"1", ".", "0", ".", "0", ".", "json">>,
     <<".", "1", ".", ".", "0", ".", "json">>,
     <<".", "1", ".", "0", ".", "0">>,
     <<".", "1", ".", "0", ".", "0", ".", "json", "/">>,
     <<".", "1", ".", "0", ".", "0", ".", "json", "x">>}

RefStrings == {q \o e : q \in Prefixes(MaxPrefix), e \in Endings}

\* parseRef is applied to a ref string; the instance is left as it was.
ParseRef(ref) ==
    /\ last.op = "new"
    /\ \E parsed \in {parseRef(ref)} :
          last' = Call("parseRef", ref, Null, Undef,
                       [S |-> RState, ok |-> parsed.ok, val |-> parsed,
                        msg |-> parsed.msg], EmptyResults)
    /\ UNCHANGED <<installs, disk, registry, schemaDir, pkgDir, opts, refCache,
                   compiledValidators, currentDomain, now, build>>

InitParse ==
    Fresh({[target |-> GoodTarget,
            package |-> Package(TRUE, TRUE, PublicManifest, GoodTarget),
            schemaDir |-> DefaultSchemaDir]}, {DefaultOptions})

NextParse == \E ref \in RefStrings : ParseRef(ref)

SpecParse == InitParse /\ [][NextParse]_vars

(***************************************************************************)
(* validateComponentSchema on sys-schemas components                       *)
(***************************************************************************)
\* What a component may carry as attributes.schema: a schema document, the
\* document without one of its members or with a malformed one, and values
\* that are no schema documents.
SchemaValues ==
    {SchemaDocument,
     DelKey(SchemaDocument, "$schema"),
     DelKey(SchemaDocument, "$id"),
     DelKey(SchemaDocument, "title"),
     DelKey(SchemaDocument, "description"),
     DelKey(SchemaDocument, "type"),
     SetKey(SchemaDocument, "$schema", Str(<<"http://", "json-schema.org/", "draft">>)),
     SetKey(SchemaDocument, "$id", Str(<<"http://", "schemas">>)),
     SetKey(SchemaDocument, "properties", Str(<<"none">>)),
     SetKey(SchemaDocument, "required", Str(<<"none">>)),
     Str(<<"none">>),
     Arr(<<>>)}

\* The attributes of the components: none, empty, with only one of type and
\* schema, with both.
SysAttributes ==
    {Undef, Obj(<<>>),
     Obj(<<KV("type", Str(<<"task">>))>>),
     Obj(<<KV("schema", SchemaDocument)>>),
     Obj(<<KV("type", Str(<<"other">>)), KV("schema", SchemaDocument)>>)}
    \cup {Obj(<<KV("type", Str(<<"task">>)), KV("schema", sv)>>) : sv \in SchemaValues}

\* A component with the members that are given (not Null, not Undef).
SysComponent(key, version, domain, flowVersion, attributes) ==
    Obj(SelectSeq(
        <<KV("key", Str(key)), KV("version", Str(version)),
          KV("domain", Str(domain)), KV("flow", Str(<<"sys-schemas">>)),
          KV("flowVersion", Str(flowVersion)), KV("attributes", attributes)>>,
        LAMBDA m : m.v.t \notin {"str", "undef"} \/ m.v.s # <<>>))

\* Components with well-formed members and any attributes, and components
\* with members missing or malformed and no attributes or well-formed ones.
SysComponents ==
    {SysComponent(<<"s">>, V100, Core, V100, a) : a \in SysAttributes}
    \cup {SysComponent(k, v, d, fv, a) :
             k \in {<<"s">>, Null}, v \in {V100, VBad, Null}, d \in {Core, Null},
             fv \in {V100, VBad, Null},
             a \in {Undef, Obj(<<KV("type", Str(<<"task">>)),
                                 KV("schema", SchemaDocument)>>)}}

\* validateComponentSchema alone, on sys-schemas components of every shape,
\* filed under Tasks/ (for which the schema directory holds a schema).
InitSchema ==
    Fresh({[target |-> GoodTarget,
            package |-> Package(TRUE, TRUE, PublicManifest, GoodTarget),
            schemaDir |-> DefaultSchemaDir]}, {DefaultOptions})

NextSchema == \E component \in SysComponents : ValidateComponentSchema(component, RefNew)

SpecSchema == InitSchema /\ [][NextSchema]_vars

(***************************************************************************)
(* validateComponentSchema on components with business-rule findings       *)
(***************************************************************************)
\* A schema directory whose task schema requires no member.
LenientSchemaDir ==
    [ty \in {"task"} |-> [required |-> {}, properties |-> ComponentProperties]]

\* A component as a resolution has returned it.
WithProvenance(component) ==
    SetKey(SetKey(SetKey(component, "_resolvedFrom", Str(<<"local:">> \o RefNew)),
                  "_resolvedAt", Str(<<"0">>)),
           "_packageVersion", Str(V100))

\* Task components with and without a key, a well-formed key, a version of
\* the form x.y.z, of either domain; a schema component; components that
\* carry the fields a resolution adds; components with a field no schema
\* defines.
RuleComponents ==
    {Component(k, v, d, <<"sys-tasks">>) :
        k \in {<<"x">>, <<"BAD KEY">>, Null},
        v \in {V100, VBad, <<"1", ".", "0">>, Null},
        d \in {Core, Billing}}
    \cup {Component(<<"x">>, V100, Core, <<"sys-schemas">>)}
    \cup {WithProvenance(c) :
             c \in {GoodTarget, Component(<<"x">>, V100, Core, <<"sys-schemas">>)}}
    \cup {SetKey(WithProvenance(GoodTarget), "normalField", Str(<<"should-remain">>)),
          SetKey(GoodTarget, "normalField", Str(<<"should-remain">>))}

\* File paths under Tasks/ with several base names, and one under no
\* component directory.
RulePaths == {RefNew, RefInSchema, RefLegacy, XJson}

InitRules ==
    Fresh({[target |-> GoodTarget,
            package |-> Package(TRUE, TRUE, PublicManifest, GoodTarget),
            schemaDir |-> sd] : sd \in SchemaDirs \cup {LenientSchemaDir}},
          {DefaultOptions})

NextRules ==
    \/ \E component \in RuleComponents, filePath \in RulePaths :
          ValidateComponentSchema(component, filePath)
    \/ LoadValidationConfig(Obj(<<KV("domain", Str(Core))>>))
    \/ \E ref \in {RefNew, RefExt} : ResolveRef(ref, Core)

SpecRules == InitRules /\ [][NextRules]_vars

(***************************************************************************)
(* The build command and buildPackage (publish)                            *)
(***************************************************************************)
ConfigPath == <<"vnext.config.json">>
PackagePath == <<"package.json">>
RefWorkflow == <<"Workflows", "/", "w", ".", "json">>
RefSchema == <<"Schemas", "/", "s", ".", "json">>
RefNotes == <<"Tasks", "/", "notes", ".", "md">>

\* A components root that is not named after the domain.
Components == <<"components">>

\* The files a project may hold, those of a directory in the order readdir
\* lists them.
Tree == <<PathJoin(Core, RefSchema), PathJoin(Core, RefNotes),
          PathJoin(Core, RefNew), PathJoin(Core, RefWorkflow),
          PathJoin(Components, RefSchema), PathJoin(Components, RefNotes),
          PathJoin(Components, RefNew), PathJoin(Components, RefWorkflow)>>

\* A workflow that refers to a local and to an external component.
BuildWorkflow ==
    Obj(<<KV("key", Str(<<"w">>)), KV("version", Str(V100)),
          KV("domain", Str(Core)), KV("flow", Str(<<"sys-flows">>)),
          KV("attributes",
             Obj(<<KV("tasks", Arr(<<Obj(<<KV("ref", Str(RefNew))>>)>>)),
                   KV("remote", Obj(<<KV("ref", Str(RefExt))>>))>>))>>)

BuildPaths ==
    Obj(<<KV("tasks", Str(<<"Tasks">>)), KV("workflows", Str(<<"Workflows">>)),
          KV("schemas", Str(<<"Schemas">>))>>)

AllExported ==
    Obj(<<KV("visibility", Str(<<"public">>)),
          KV("workflows", Arr(<<Str(<<"w", ".", "json">>)>>)),
          KV("schemas", Arr(<<Str(<<"s", ".", "json">>)>>)),
          KV("tasks", Arr(<<Str(XJson), Str(<<"missing", ".", "json">>)>>))>>)

WorkflowsExported ==
    Obj(<<KV("visibility", Str(<<"public">>)),
          KV("workflows", Arr(<<Str(<<"gone", ".", "json">>),
                                Str(<<"w", ".", "json">>)>>))>>)

DefaultConfig ==
    Obj(<<KV("domain", Str(Core)), KV("paths", BuildPaths),
          KV("exports", AllExported)>>)

\* A manifest whose components root is not the directory of the domain.
RootedConfig ==
    Obj(<<KV("domain", Str(Core)),
          KV("paths", SetKey(BuildPaths, "componentsRoot", Str(Components))),
          KV("exports", AllExported)>>)

\* The vnext.config.json files of the project.
BuildConfigs ==
    {DefaultConfig,
     Obj(<<KV("domain", Str(Core)), KV("paths", BuildPaths),
           KV("exports", AllExported),
           KV("referenceResolution",
              Obj(<<KV("validateReferenceConsistency", Bool(FALSE)),
                    KV("validateSchemas", Bool(FALSE))>>))>>),
     Obj(<<KV("domain", Str(Core)), KV("paths", BuildPaths),
           KV("exports", WorkflowsExported)>>),
     Obj(<<KV("domain", Str(Core)), KV("paths", BuildPaths)>>),
     Obj(<<KV("domain", Str(Core)), KV("exports", WorkflowsExported)>>)}

BuildTargets ==
    {GoodTarget,
     Component(<<"x">>, Null, Core, <<"sys-tasks">>),
     Component(<<"x">>, V100, Billing, <<"sys-tasks">>),
     Component(<<"x">>, VBad, Core, <<"sys-tasks">>),
     NotJson}

PackageJson == Obj(<<KV("name", Str(<<"pkg">>))>>)

\* The schema component of the project, which no other component refers
\* to: a well-formed one, one of another domain, and one whose
\* attributes.type is no component kind.
GoodSchema == Component(<<"s">>, V100, Core, <<"sys-schemas">>)

BuildSchemas ==
    {GoodSchema,
     Component(<<"s">>, V100, Billing, <<"sys-schemas">>),
     SetKey(GoodSchema, "attributes",
            Obj(<<KV("type", Str(<<"other">>)), KV("schema", SchemaDocument)>>))}

\* The project: components and notes under the components root of the
\* manifest, and (when present) the two descriptors.
BuildDisk(target, schema, config, hasConfig, hasPackage) ==
    LET root == IF Truthy(Get(Get(config, "paths"), "componentsRoot"))
                THEN GetS(Get(config, "paths"), "componentsRoot")
                ELSE GetS(config, "domain")
        files == {PathJoin(root, RefSchema), PathJoin(root, RefNotes),
                  PathJoin(root, RefNew), PathJoin(root, RefWorkflow)}
                 \cup (IF hasConfig THEN {ConfigPath} ELSE {})
                 \cup (IF hasPackage THEN {PackagePath} ELSE {})
    IN  [f \in files |->
            IF f = ConfigPath THEN config
            ELSE IF f = PackagePath THEN PackageJson
            ELSE IF f = PathJoin(root, RefSchema) THEN schema
            ELSE IF f = PathJoin(root, RefNotes) THEN NotJson
            ELSE IF f = PathJoin(root, RefNew) THEN target
            ELSE BuildWorkflow]

\* What an output directory holds: nothing (it does not exist), or files.
NoOutput == [exists |-> FALSE, files |-> <<>>]
StaleOutput == [exists |-> TRUE,
                files |-> [f \in {<<"stale", ".", "json">>} |-> Str(<<"old">>)]]

\* fs.pathExists of a directory
DirExists(dirPath) ==
    \E f \in DOMAIN disk : StartsWith(f, dirPath \o <<"/">>)

findJsonFiles(dirPath) ==
    IF ~DirExists(dirPath) THEN <<>>
    ELSE SelectSeq(Tree, LAMBDA f : /\ f \in DOMAIN disk
                                    /\ StartsWith(f, dirPath \o <<"/">>)
                                    /\ IsJsonName(f))

getAllFiles(dirPath) ==
    SelectSeq(Tree, LAMBDA f : /\ f \in DOMAIN disk
                               /\ StartsWith(f, dirPath \o <<"/">>))

\* config.paths?.componentsRoot || config.domain
ComponentsRoot(config) ==
    LET root == Get(Get(config, "paths"), "componentsRoot")
    IN  IF Truthy(root) THEN root.s ELSE GetS(config, "domain")

\* new RefResolver({...}): an instance with nothing cached and no domain.
NewResolver(S, o) ==
    [S EXCEPT !.refCache = <<>>, !.currentDomain = Null,
              !.compiledValidators = <<>>, !.opts = o]

\* The options the validating resolver is constructed with.
GateOptions(config) ==
    LET rr == Get(config, "referenceResolution")
    IN  [validateReferenceConsistency |->
             Get(rr, "validateReferenceConsistency").t # "false",
         validateSchemas |-> Get(rr, "validateSchemas").t # "false"]

\* fs.writeJSON(path, v) into a directory
Put(files, path, v) ==
    [f \in DOMAIN files \cup {path} |-> IF f = path THEN writeJSON(v) ELSE files[f]]

\* Faulty variant: the file is not copied.
CopySkipped(files, path, source) == files

\* fs.copy(source, path) into a directory
Copy(files, path, source) ==
    [f \in DOMAIN files \cup {path} |-> IF f = path THEN disk[source] ELSE files[f]]

\* The package.json a build writes.
Descriptor(packageJson, type) ==
    LET originalPackageName == Get(packageJson, "name")
        description == Get(packageJson, "description")
        suffix == IF type = "reference"
                  THEN <<" ", "(Reference Package for Cross-Domain Usage)">>
                  ELSE <<" ", "(Runtime Package for Engine Deployment)">>
        vnext == IF Get(packageJson, "vnext").t = "obj"
                 THEN Get(packageJson, "vnext") ELSE Obj(<<>>)
    IN  SetKey(SetKey(SetKey(packageJson,
            "name", Str(Template(originalPackageName) \o <<"-", type>>)),
            "description",
            Str(IF Truthy(description) THEN description.s \o suffix
                ELSE Tail(suffix))),
            "vnext",
            SetKey(SetKey(SetKey(vnext, "buildType", Str(<<type>>)),
                          "buildTimestamp", Stamp),
                   "originalPackage", originalPackageName))

\* The files of one export category, as (source, target) pairs.
CategoryItems(config, category, files) ==
    LET configured == Get(Get(config, "paths"), category)
        categoryPath == IF Truthy(configured) THEN configured.s ELSE <<category>>
    IN  [n \in 1..Len(files.kids) |->
            [src |-> PathJoin(ComponentsRoot(config),
                              PathJoin(categoryPath, files.kids[n].v.s)),
             dst |-> PathJoin(GetS(config, "domain"),
                              PathJoin(categoryPath, files.kids[n].v.s))]]

\* for (const [category, files] of Object.entries(config.exports)), from the
\* i-th entry on: the array-valued entries, in order.
RECURSIVE ExportItems(_, _)
ExportItems(config, i) ==
    LET exports == Get(config, "exports")
    IN  IF i > Len(exports.kids) THEN <<>>
        ELSE (IF exports.kids[i].v.t = "arr"
              THEN CategoryItems(config, exports.kids[i].k, exports.kids[i].v)
              ELSE <<>>) \o ExportItems(config, i + 1)

\* config.paths[category] throws when the config has no paths.
ExportThrows(config) ==
    LET exports == Get(config, "exports")
    IN  /\ ~HasKey(config, "paths")
        /\ \E i \in 1..Len(exports.kids) : exports.kids[i].v.t = "arr"

\* Faulty variant: a reference build takes every file of the domain too.
WorkWholeTree(config, type) ==
    LET domainPath == ComponentsRoot(config)
        all == getAllFiles(domainPath)
    IN  [n \in 1..Len(all) |->
            [src |-> all[n],
             dst |-> PathJoin(GetS(config, "domain"),
                              SubStr(all[n], Len(domainPath) + 2, Len(all[n])))]]

\* The (source, target) pairs a build of the given type processes.
Work(config, type) ==
    LET domainPath == ComponentsRoot(config)
        all == getAllFiles(domainPath)
    IN  IF type = "reference"
        THEN IF Truthy(Get(config, "exports")) THEN ExportItems(config, 1) ELSE <<>>
        ELSE IF DirExists(domainPath)
        THEN [n \in 1..Len(all) |->
                 [src |-> all[n],
                  dst |-> PathJoin(GetS(config, "domain"),
                                   SubStr(all[n], Len(domainPath) + 2, Len(all[n])))]]
        ELSE <<>>

\* What is kept of the run before: how it was invoked, what its checks
\* returned and what it left in the output directory.
NoFirst == [cmd |-> "none", type |-> "none", skip |-> FALSE, npm |-> TRUE,
            validations |-> <<>>, out |-> NoOutput]

\* Before the action runs.  validations lists what validateAllReferences
\* returned for the files checked so far; run counts the invocations; they
\* and written, prev and first are not variables of the program.
Idle(prev) ==
    [pc |-> "idle", cmd |-> "none", type |-> "none", skip |-> FALSE, npm |-> TRUE,
     config |-> Undef, jsonFiles |-> <<>>, i |-> 1, totalFiles |-> 0,
     validFiles |-> 0, work |-> <<>>, j |-> 1, written |-> <<>>,
     attempted |-> <<>>,
     validations |-> <<>>, run |-> 1, first |-> NoFirst,
     out |-> prev, prev |-> prev, exit |-> "none"]

\* process.exit(1), or the error thrown to the caller
Abort(b) == [b EXCEPT !.pc = "done", !.exit = "error"]

\* Faulty variant: the count of valid files is not looked at.
GatePassesAlways(b) == TRUE

\* validFiles === totalFiles
GatePasses(b) == b.validFiles = b.totalFiles

\* The command starts: its options are checked, the manifest is read, and
\* (unless validation is skipped) the validating resolver is constructed and
\* the component files are listed.  npm tells whether the schema package can
\* be fetched.
BuildStart(cmd, type, skip, npm) ==
    /\ build.pc = "idle"
    /\ cmd = "publish" => ~skip
    /\ build.run = 2 =>
          <<cmd, type, skip, npm>>
              = <<build.first.cmd, build.first.type, build.first.skip, build.first.npm>>
    /\ LET b == [build EXCEPT !.cmd = cmd, !.type = type, !.skip = skip, !.npm = npm]
           config == disk[ConfigPath]
           S == loadValidationConfig(NewResolver(RState, GateOptions(config)), config)
       IN  IF type \notin {"reference", "runtime"} \/ ConfigPath \notin DOMAIN disk
           THEN build' = Abort(b) /\ Adopt(RState)
           ELSE IF skip
           THEN build' = [b EXCEPT !.pc = "clean", !.config = config] /\ Adopt(RState)
           ELSE IF ~npm
           THEN build' = Abort([b EXCEPT !.config = config]) /\ Adopt(RState)
           ELSE /\ build' = [b EXCEPT !.pc = "validate", !.config = config,
                                      !.jsonFiles = findJsonFiles(ComponentsRoot(config))]
                /\ Adopt(S)
    /\ UNCHANGED <<installs, disk, registry, schemaDir, now, last>>

\* One turn of the validation loop.  The build command counts the files and
\* the valid ones; buildPackage throws at the first file that is not valid.
BuildValidate ==
    /\ build.pc = "validate"
    /\ build.i <= Len(build.jsonFiles)
    /\ \E content \in {disk[build.jsonFiles[build.i]]} :
       \E r \in {IF content.t = "raw" THEN [S |-> RState, results |-> EmptyResults]
                  ELSE validateAllReferences(RState, content,
                                             GetS(build.config, "domain"))} :
       LET valid == content.t # "raw" /\ r.results.valid
           b == IF content.t = "raw" THEN build
                ELSE [build EXCEPT !.validations = Append(@, r.results)]
       IN  /\ Adopt(r.S)
           /\ build' =
                 IF build.cmd = "build"
                 THEN [b EXCEPT !.i = @ + 1, !.totalFiles = @ + 1,
                                !.validFiles = IF valid THEN @ + 1 ELSE @]
                 ELSE IF valid THEN [b EXCEPT !.i = @ + 1]
                 ELSE Abort(b)
    /\ UNCHANGED <<installs, disk, registry, schemaDir, now, last>>

\* After the loop: the build command exits unless every file was valid.
BuildGate ==
    /\ build.pc = "validate"
    /\ build.i > Len(build.jsonFiles)
    /\ build' = IF build.cmd = "build" /\ ~GatePasses(build)
                THEN Abort(build)
                ELSE [build EXCEPT !.pc = "clean"]
    /\ UNCHANGED <<installs, disk, registry, schemaDir, pkgDir, opts, refCache,
                   compiledValidators, currentDomain, now, last>>

\* fs.remove(outputDir); fs.ensureDir(outputDir)
BuildClean ==
    /\ build.pc = "clean"
    /\ build' = [build EXCEPT !.pc = "descriptor",
                              !.out = [exists |-> TRUE, files |-> <<>>]]
    /\ UNCHANGED <<installs, disk, registry, schemaDir, pkgDir, opts, refCache,
                   compiledValidators, currentDomain, now, last>>

\* The manifest and the package descriptor are written; the build command
\* then constructs the resolver of the transformer, buildPackage keeps the
\* validating one.
BuildDescriptor ==
    /\ build.pc = "descriptor"
    /\ LET config == build.config
           withConfig == Put(build.out.files, ConfigPath, config)
           files == IF PackagePath \in DOMAIN disk
                    THEN Put(withConfig, PackagePath,
                             Descriptor(disk[PackagePath], build.type))
                    ELSE withConfig
           b == [build EXCEPT !.out.files = files]
           S == loadValidationConfig(NewResolver(RState, DefaultOptions), config)
       IN  IF build.cmd = "build" /\ ~build.npm
           THEN build' = Abort(b) /\ Adopt(RState)
           ELSE /\ Adopt(IF build.cmd = "build" THEN S ELSE RState)
                /\ build' =
                      IF build.type = "reference" /\ Truthy(Get(config, "exports"))
                         /\ ExportThrows(config)
                      THEN Abort(b)
                      ELSE [b EXCEPT !.pc = "components",
                                     !.work = Work(config, build.type)]
    /\ UNCHANGED <<installs, disk, registry, schemaDir, now, last>>

\* The refs the transformer announced, in order, in the log of one file.
ResolvingLog(io) ==
    LET said == SelectSeq(io, LAMBDA e : Len(e) >= 1 /\ e[1] = "Resolving ref:")
    IN  [n \in 1..Len(said) |-> Tail(said[n])]

\* One file of the build: an exported component (reference) or any file of
\* the domain (runtime).
BuildComponent ==
    /\ build.pc = "components"
    /\ build.j <= Len(build.work)
    /\ \E item \in {build.work[build.j]} :
       \E r \in {IF item.src \in DOMAIN disk /\ disk[item.src].t # "raw"
                  THEN resolveReferencesToPayload(RState, disk[item.src],
                                                  GetS(build.config, "domain"))
                  ELSE [S |-> RState, val |-> Undef]} :
       LET next == [build EXCEPT !.j = @ + 1]
           processed == [next EXCEPT !.out.files = Put(@, item.dst, r.val),
                                     !.written = Append(@, item),
                                     !.attempted = @ \o ResolvingLog(r.S.io)]
           copied == [next EXCEPT !.out.files = Copy(@, item.dst, item.src)]
       IN  IF build.type = "reference"
           THEN IF item.src \notin DOMAIN disk
                THEN build' = next /\ Adopt(RState)
                ELSE IF disk[item.src].t = "raw"
                THEN build' = Abort(build) /\ Adopt(RState)
                ELSE build' = processed /\ Adopt(r.S)
           ELSE IF IsJsonName(item.src) /\ disk[item.src].t # "raw"
                THEN build' = processed /\ Adopt(r.S)
                ELSE build' = copied /\ Adopt(RState)
    /\ UNCHANGED <<installs, disk, registry, schemaDir, now, last>>

\* The build is complete; publish then runs npm publish, which may fail.
BuildFinish(published) ==
    /\ build.pc = "components"
    /\ build.j > Len(build.work)
    /\ build.cmd = "build" => published
    /\ build' = [build EXCEPT !.pc = "done",
                              !.exit = IF published THEN "ok" ELSE "error"]
    /\ UNCHANGED <<installs, disk, registry, schemaDir, pkgDir, opts, refCache,
                   compiledValidators, currentDomain, now, last>>

\* The same command is invoked again, later, on the project as it is: a new
\* process, with the output directory and the package cache the first run
\* left.
BuildAgain ==
    /\ build.pc = "done"
    /\ build.run = 1
    /\ build' = [Idle(build.out) EXCEPT
                    !.run = 2,
                    !.first = [cmd |-> build.cmd, type |-> build.type,
                               skip |-> build.skip, npm |-> build.npm,
                               validations |-> build.validations,
                               out |-> build.out]]
    /\ refCache' = <<>>
    /\ compiledValidators' = <<>>
    /\ currentDomain' = Null
    /\ opts' = DefaultOptions
    /\ now' = now + 1
    /\ UNCHANGED <<installs, disk, registry, schemaDir, pkgDir, last>>

\* The projects the builds run on.  The package the workflow refers to
\* holds the same component as the project, or a readable one when the
\* project's file is not JSON.
BuildWorlds ==
    {[target |-> t, schema |-> GoodSchema, config |-> c, hasConfig |-> TRUE,
      hasPackage |-> TRUE, prev |-> StaleOutput] :
        t \in BuildTargets, c \in BuildConfigs}
    \cup {[target |-> GoodTarget, schema |-> GoodSchema, config |-> c,
           hasConfig |-> h, hasPackage |-> p, prev |-> o] :
             c \in BuildConfigs, h \in BOOLEAN, p \in BOOLEAN,
             o \in {NoOutput, StaleOutput}}
    \cup {[target |-> GoodTarget, schema |-> s, config |-> DefaultConfig,
           hasConfig |-> TRUE, hasPackage |-> TRUE, prev |-> StaleOutput] :
             s \in BuildSchemas}
    \cup {[target |-> GoodTarget, schema |-> GoodSchema, config |-> RootedConfig,
            hasConfig |-> TRUE, hasPackage |-> TRUE, prev |-> StaleOutput]}

InitBuild ==
    /\ \E w \in BuildWorlds :
        /\ disk = BuildDisk(w.target, w.schema, w.config, w.hasConfig, w.hasPackage)
        /\ registry = [n \in {PkgName} |->
                          Package(TRUE, TRUE, PublicManifest,
                                  IF w.target = NotJson THEN GoodTarget
                                  ELSE w.target)]
        /\ build = Idle(w.prev)
    /\ schemaDir = DefaultSchemaDir
    /\ pkgDir = {}
    /\ installs = NoInstalls
    /\ opts = DefaultOptions
    /\ refCache = <<>>
    /\ compiledValidators = <<>>
    /\ currentDomain = Null
    /\ now = 0
    /\ last = Call("new", Null, Null, Undef, Ok(RState, Undef), EmptyResults)

NextBuild ==
    \/ \E cmd \in {"build", "publish"}, type \in {"reference", "runtime", "other"},
          skip \in BOOLEAN, npm \in BOOLEAN : BuildStart(cmd, type, skip, npm)
    \/ BuildValidate
    \/ BuildGate
    \/ BuildClean
    \/ BuildDescriptor
    \/ BuildComponent
    \/ \E published \in BOOLEAN : BuildFinish(published)
    \/ BuildAgain

SpecBuild == InitBuild /\ [][NextBuild]_vars

(***************************************************************************)
(* The validate command                                                    *)
(***************************************************************************)
\* Before the action runs.  seen lists the files the loop has gone through
\* and listed tells that the file list was made; neither is a variable of
\* the program.
IdleValidate ==
    [pc |-> "idle", cmd |-> "validate", resolveRefs |-> FALSE, npm |-> TRUE,
     skip |-> FALSE, file |-> Null, config |-> Undef, jsonFiles |-> <<>>, i |-> 1,
     totalFiles |-> 0, validFiles |-> 0, totalRefs |-> 0, validRefs |-> 0,
     schemaValidationPassed |-> 0, schemaValidationFailed |-> 0,
     seen |-> <<>>, listed |-> FALSE, exit |-> "none"]

\* The file arguments of the command: none, a component, a file that is no
\* JSON file, a file that does not exist.
FileArguments ==
    {Null, PathJoin(Core, RefNew), PathJoin(Core, RefNotes),
     PathJoin(Core, <<"Tasks", "/", "gone", ".", "json">>)}

\* Faulty variant: the command never reports a failure.
allValidationsPassedAlways(b) == TRUE

allValidationsPassed(b) ==
    /\ b.validFiles = b.totalFiles
    /\ b.schemaValidationFailed = 0
    /\ (b.resolveRefs => b.validRefs = b.totalRefs)

\* The command starts: the manifest is read, the schemas are fetched (npm
\* tells whether they can be), the resolver is constructed and the file
\* list is made, of the one file given or of the files under the root.
ValidateStart(file, resolveRefs, npm) ==
    /\ build.pc = "idle"
    /\ LET b == [build EXCEPT !.file = file, !.resolveRefs = resolveRefs,
                              !.npm = npm]
           config == disk[ConfigPath]
           S == loadValidationConfig(NewResolver(RState, GateOptions(config)), config)
       IN  IF ConfigPath \notin DOMAIN disk
           THEN build' = Abort(b) /\ Adopt(RState)
           ELSE IF ~npm
           THEN build' = Abort([b EXCEPT !.config = config]) /\ Adopt(RState)
           ELSE /\ Adopt(S)
                /\ build' =
                     IF file = Null
                     THEN [b EXCEPT !.pc = "files", !.config = config,
                                    !.listed = TRUE,
                                    !.jsonFiles = findJsonFiles(ComponentsRoot(config))]
                     ELSE IF file \notin DOMAIN disk \/ ~IsJsonName(file)
                     THEN Abort([b EXCEPT !.config = config])
                     ELSE [b EXCEPT !.pc = "files", !.config = config,
                                    !.listed = TRUE, !.jsonFiles = <<file>>]
    /\ UNCHANGED <<installs, disk, registry, schemaDir, now, last>>

\* One turn of the loop over the files: the file is read, its schema is
\* checked and, with --resolve-refs, its references are; a failure is
\* counted and the loop goes on.
ValidateFile ==
    /\ build.pc = "files"
    /\ build.i <= Len(build.jsonFiles)
    /\ \E filePath \in {build.jsonFiles[build.i]} :
       \E content \in {disk[filePath]} :
       \E schema \in {IF content.t = "raw" THEN Fail(RState, <<>>)
                       ELSE validateComponentSchema(RState, content, filePath)} :
       \E validation \in {IF content.t = "raw" \/ ~build.resolveRefs
                           THEN [S |-> schema.S, results |-> EmptyResults]
                           ELSE validateAllReferences(schema.S, content,
                                    GetS(build.config, "domain"))} :
       LET b == [build EXCEPT !.i = @ + 1, !.totalFiles = @ + 1,
                              !.seen = Append(@, filePath)]
           fileSchemaValid == schema.ok
           rr == validation.results.resolvedRefs
       IN  /\ Adopt(validation.S)
           /\ build' =
                 IF content.t = "raw" THEN b
                 ELSE [b EXCEPT
                     !.schemaValidationPassed = IF fileSchemaValid THEN @ + 1 ELSE @,
                     !.schemaValidationFailed = IF fileSchemaValid THEN @ ELSE @ + 1,
                     !.totalRefs = @ + Len(rr),
                     !.validRefs = @ + CountStatus(rr, "success"),
                     !.validFiles = IF validation.results.valid /\ fileSchemaValid
                                    THEN @ + 1 ELSE @]
    /\ UNCHANGED <<installs, disk, registry, schemaDir, now, last>>

\* After the loop: the summary, and the exit code.
ValidateSummary ==
    /\ build.pc = "files"
    /\ build.i > Len(build.jsonFiles)
    /\ build' = [build EXCEPT !.pc = "done",
                              !.exit = IF allValidationsPassed(build)
                                       THEN "ok" ELSE "error"]
    /\ UNCHANGED <<installs, disk, registry, schemaDir, pkgDir, opts, refCache,
                   compiledValidators, currentDomain, now, last>>

InitValidate ==
    /\ \E w \in BuildWorlds :
        /\ disk = BuildDisk(w.target, w.schema, w.config, w.hasConfig, w.hasPackage)
        /\ registry = [n \in {PkgName} |->
                          Package(TRUE, TRUE, PublicManifest,
                                  IF w.target = NotJson THEN GoodTarget
                                  ELSE w.target)]
    /\ build = IdleValidate
    /\ schemaDir = DefaultSchemaDir
    /\ pkgDir = {}
    /\ installs = NoInstalls
    /\ opts = DefaultOptions
    /\ refCache = <<>>
    /\ compiledValidators = <<>>
    /\ currentDomain = Null
    /\ now = 0
    /\ last = Call("new", Null, Null, Undef, Ok(RState, Undef), EmptyResults)

NextValidate ==
    \/ \E file \in FileArguments, resolveRefs \in BOOLEAN, npm \in BOOLEAN :
          ValidateStart(file, resolveRefs, npm)
    \/ ValidateFile
    \/ ValidateSummary

SpecValidate == InitValidate /\ [][NextValidate]_vars

(***************************************************************************)
(* ensurePackage, step by step, called by callers that share the cache     *)
(***************************************************************************)
\* How many times each caller invokes ensurePackage.
MaxRuns == 2

\* Faulty variant: the catch block leaves packageCacheDir as it is.
AfterCatchKept(content) == content

\* catch: await fs.remove(packageCacheDir)
AfterCatch(content) == "absent"

InProgress(p) == installs.inv[p].pc # "idle"

\* The invocation of caller p that is in progress.
Invocation(p) == <<p, installs.inv[p].run>>

\* Caller p is at step pc and goes on to step next.
Goes(p, next) == [installs EXCEPT !.inv[p].pc = next]

\* The invocation of p ends: it returns packageCacheDir (result "dir",
\* found cached or downloaded) or throws (result "error").
Returns(I, p, result, how) ==
    [I EXCEPT !.inv[p].pc = "idle",
              !.returns = Append(@, [who |-> <<p, I.inv[p].run>>,
                                     result |-> result, how |-> how,
                                     content |-> I.content,
                                     madeBy |-> I.madeBy,
                                     overlap |-> I.inv[p].overlap])]

\* Only the package cache and the invocations change.
CacheOnly ==
    UNCHANGED <<disk, registry, schemaDir, opts, refCache, compiledValidators,
                currentDomain, now, last, build>>

\* ensurePackage(packageName) is called.
EnsureCall(p) ==
    /\ ~InProgress(p)
    /\ installs.inv[p].run < MaxRuns
    /\ installs' =
          [installs EXCEPT
              !.inv = [q \in Callers |->
                         IF q = p
                         THEN [pc |-> "pathExists", run |-> @[p].run + 1,
                               overlap |-> \E o \in Callers \ {p} : InProgress(o)]
                         ELSE IF InProgress(q)
                         THEN [@[q] EXCEPT !.overlap = TRUE]
                         ELSE @[q]]]
    /\ UNCHANGED pkgDir
    /\ CacheOnly

\* if (await fs.pathExists(packageCacheDir)) return packageCacheDir
EnsurePathExists(p) ==
    /\ installs.inv[p].pc = "pathExists"
    /\ installs' = IF PkgName \in pkgDir
                   THEN Returns(installs, p, "dir", "cached")
                   ELSE Goes(p, "ensureDir")
    /\ UNCHANGED pkgDir
    /\ CacheOnly

\* await fs.ensureDir(packageCacheDir)
EnsureDir(p) ==
    /\ installs.inv[p].pc = "ensureDir"
    /\ installs' = IF PkgName \in pkgDir THEN Goes(p, "pack")
                   ELSE [Goes(p, "pack") EXCEPT !.content = "empty",
                                                !.madeBy = Invocation(p)]
    /\ pkgDir' = pkgDir \cup {PkgName}
    /\ CacheOnly

\* execSync(`npm pack ...`): the tar file is in temp, or the command fails.
EnsurePack(p) ==
    /\ installs.inv[p].pc = "pack"
    /\ installs' = IF registry[PkgName].avail
                   THEN [Goes(p, "tar") EXCEPT !.tar = TRUE]
                   ELSE Goes(p, "catch")
    /\ UNCHANGED pkgDir
    /\ CacheOnly

\* execSync(`tar -xzf ...`) starts: it fails if the tar file or the
\* directory is not there, and else begins to fill the directory.
EnsureTar(p) ==
    /\ installs.inv[p].pc = "tar"
    /\ installs' = IF ~installs.tar \/ PkgName \notin pkgDir
                   THEN Goes(p, "catch")
                   ELSE [Goes(p, "extracting") EXCEPT
                            !.content = IF @ = "complete" THEN @ ELSE "partial"]
    /\ UNCHANGED pkgDir
    /\ CacheOnly

\* tar ends: the package is extracted, unless the directory has been
\* removed under it.
EnsureExtracted(p) ==
    /\ installs.inv[p].pc = "extracting"
    /\ installs' = IF PkgName \notin pkgDir THEN Goes(p, "catch")
                   ELSE [Goes(p, "remove") EXCEPT !.content = "complete"]
    /\ UNCHANGED pkgDir
    /\ CacheOnly

\* await fs.remove(tarPath); return packageCacheDir
EnsureReturn(p) ==
    /\ installs.inv[p].pc = "remove"
    /\ installs' = Returns([installs EXCEPT !.tar = FALSE], p, "dir", "downloaded")
    /\ UNCHANGED pkgDir
    /\ CacheOnly

\* catch (error) { await fs.remove(packageCacheDir); throw ... }
EnsureCatch(p) ==
    /\ installs.inv[p].pc = "catch"
    /\ \E content \in {AfterCatch(installs.content)} :
          /\ installs' =
                Returns([installs EXCEPT
                            !.content = content,
                            !.madeBy = IF content = "absent" THEN <<>> ELSE @,
                            !.failed = @ \cup {Invocation(p)}],
                        p, "error", "downloaded")
          /\ pkgDir' = IF content = "absent" THEN pkgDir \ {PkgName} ELSE pkgDir
    /\ CacheOnly

\* The package can be downloaded, or the download fails.
InitPackage ==
    Fresh({[target |-> GoodTarget,
            package |-> Package(avail, TRUE, PublicManifest, GoodTarget),
            schemaDir |-> DefaultSchemaDir] : avail \in BOOLEAN},
          {DefaultOptions})

NextPackage ==
    \E p \in Callers :
        \/ EnsureCall(p)
        \/ EnsurePathExists(p)
        \/ EnsureDir(p)
        \/ EnsurePack(p)
        \/ EnsureTar(p)
        \/ EnsureExtracted(p)
        \/ EnsureReturn(p)
        \/ EnsureCatch(p)

SpecPackage == InitPackage /\ [][NextPackage]_vars

(***************************************************************************)
(* Properties                                                              *)
(***************************************************************************)
LastResolve == last.op = "resolveRef"
LastParsed == parseRef(last.ref)
ConsistencyFailure(msg) ==
    Includes(msg, <<"Reference consistency validation failed for '">>)

\* The file a ref names: where it is and whether resolution gets to read it.
TargetAvailable(ref, dom) ==
    LET parsed == parseRef(ref)
        pkg == registry[parsed.packageName]
    IN  /\ parsed.ok
        /\ IF parsed.isLocal
           THEN /\ PathJoin(dom, ref) \in DOMAIN disk
                /\ disk[PathJoin(dom, ref)].t # "raw"
           ELSE /\ parsed.packageName \in DOMAIN registry
                /\ pkg.avail /\ pkg.hasConfig
                /\ isComponentExported(parsed.filePath, pkg.config)
                /\ parsed.filePath \in DOMAIN pkg.files

TargetContent(ref, dom) ==
    LET parsed == parseRef(ref)
    IN  IF parsed.isLocal THEN disk[PathJoin(dom, ref)]
        ELSE registry[parsed.packageName].files[parsed.filePath]

\* The log holds a read of the component file the ref names.
ComponentRead(io, ref, dom) ==
    LET parsed == parseRef(ref)
        path == IF parsed.isLocal THEN PathJoin(dom, ref)
                ELSE parsed.packageName \o <<"/">> \o parsed.filePath
    IN  \E i \in 1..Len(io) : io[i] = <<"readJSON">> \o path

C2_FailureSemantics ==
    (LastResolve /\ ~last.ok) =>
        /\ Includes(last.msg, last.ref)
        /\ refCache = last.pre.refCache
        /\ last.ref \notin DOMAIN refCache

\* C2 witness: a resolution that failed in its last step, the schema
\* validation, after the file was read and the consistency check passed.
C2_Witness ==
    /\ LastResolve /\ ~last.ok
    /\ ComponentRead(last.io, last.ref, last.dom)
    /\ \E i \in 1..Len(last.io) : last.io[i] = <<"consistency">> \o last.ref
    /\ \E i \in 1..Len(last.io) : last.io[i] = <<"schema">> \o LastParsed.filePath

\* The manifest lists the file name under no category, or is private, or has
\* no exports.
NotExported(manifest, name) ==
    \/ ~HasKey(manifest, "exports")
    \/ GetS(Get(manifest, "exports"), "visibility") = <<"private">>
    \/ \A c \in {"functions", "workflows", "tasks", "views", "schemas", "extensions"} :
          LET list == Get(Get(manifest, "exports"), c)
          IN  \A i \in 1..Len(list.kids) : list.kids[i].v.s # name

ExternalWithManifest ==
    /\ LastResolve /\ LastParsed.ok /\ ~LastParsed.isLocal
    /\ LastParsed.packageName \in DOMAIN registry
    /\ registry[LastParsed.packageName].avail
    /\ registry[LastParsed.packageName].hasConfig

\* C3: resolving an external ref whose package manifest does not export the
\* file fails as not exported, caches nothing and does not read the component
\* file; the component file is read only when the manifest exports it.
C3_ExportGating ==
    ExternalWithManifest =>
        LET manifest == registry[LastParsed.packageName].config
            hidden == NotExported(manifest, Basename(LastParsed.filePath))
        IN  /\ hidden =>
                  /\ ~last.ok
                  /\ Includes(last.msg, <<" is not exported by ">>)
                  /\ last.ref \notin DOMAIN refCache
            /\ ComponentRead(last.io, last.ref, last.dom) => ~hidden

\* C3 witness: the file is listed, but the manifest is private.
C3_Witness ==
    /\ ExternalWithManifest /\ ~last.ok
    /\ LET exports == Get(registry[LastParsed.packageName].config, "exports")
       IN  /\ GetS(exports, "visibility") = <<"private">>
           /\ ArrIncludes(ExportList(exports, "tasks"), Basename(LastParsed.filePath))

\* The export category of the directory a file path starts with.
CategoryOfPath(filePath) ==
    IF StartsWith(filePath, <<"Tasks", "/">>) THEN "tasks"
    ELSE IF StartsWith(filePath, <<"Workflows", "/">>) THEN "workflows"
    ELSE IF StartsWith(filePath, <<"Functions", "/">>) THEN "functions"
    ELSE IF StartsWith(filePath, <<"Views", "/">>) THEN "views"
    ELSE IF StartsWith(filePath, <<"Schemas", "/">>) THEN "schemas"
    ELSE IF StartsWith(filePath, <<"Extensions", "/">>) THEN "extensions"
    ELSE "none"

\* C4: an external ref resolves only if the file name is listed under the
\* export category of its directory and the exports are not private.
C4_CategoryMatched ==
    (ExternalWithManifest /\ last.ok) =>
        LET exports == Get(registry[LastParsed.packageName].config, "exports")
        IN  /\ GetS(exports, "visibility") # <<"private">>
            /\ ArrIncludes(ExportList(exports, CategoryOfPath(LastParsed.filePath)),
                           Basename(LastParsed.filePath))

\* The legacy convention holds of a file: content.version is present, is the
\* version of the file name, and the stem is <key>.<version>.
LegacyConsistent(ref, content) ==
    /\ HasKey(content, "version")
    /\ GetS(content, "version") = extractVersionFromFilename(ref)
    /\ BasenameExt(ref, <<".", "json">>)
         = GetS(content, "key") \o <<".">> \o GetS(content, "version")

\* C5: with validateReferenceConsistency enabled, resolving a ref (one not
\* yet in the cache) whose file name carries a version fails with a
\* reference-consistency error unless the legacy convention holds of the file.
C5_LegacyConsistency ==
    (/\ LastResolve
     /\ last.ref \notin DOMAIN last.pre.refCache
     /\ extractVersionFromFilename(last.ref) # Null
     /\ last.pre.opts.validateReferenceConsistency
     /\ TargetAvailable(last.ref, last.dom)
     /\ ~LegacyConsistent(last.ref, TargetContent(last.ref, last.dom)))
    => (~last.ok /\ ConsistencyFailure(last.msg))

\* C5 witness: file x.1.0.0.json whose content has key y and version 1.0.0.
C5_Witness ==
    /\ LastResolve /\ last.ref = RefLegacy /\ ~last.ok
    /\ last.pre.opts.validateReferenceConsistency
    /\ TargetAvailable(last.ref, last.dom)
    /\ GetS(TargetContent(last.ref, last.dom), "key") = <<"y">>
    /\ GetS(TargetContent(last.ref, last.dom), "version") = V100

\* A resolveRef of x.json whose content has key x.
NewConventionCase ==
    /\ LastResolve
    /\ LastParsed.ok /\ LastParsed.version = Null
    /\ TargetAvailable(last.ref, last.dom)
    /\ HasKey(TargetContent(last.ref, last.dom), "key")
    /\ GetS(TargetContent(last.ref, last.dom), "key")
         = BasenameExt(last.ref, <<".", "json">>)

\* C6 as stated: x.json with key x resolves whatever content.version is
\* (here with schema validation disabled, so that nothing else can fail).
C6_AnyVersion ==
    (NewConventionCase /\ ~last.pre.opts.validateSchemas) => last.ok

\* C6 amended: x.json with key x passes the consistency check exactly when
\* content.version is absent or a valid semver and the key matches
\* ^[a-z0-9-]+$; a malformed version is a reference-consistency error.
C6_NewConvention ==
    NewConventionCase =>
        LET content == TargetContent(last.ref, last.dom)
            wellFormed == /\ (HasKey(content, "version")
                                => SemverValid(GetS(content, "version")))
                          /\ KeyPatternOk(GetS(content, "key"))
            checked == last.pre.opts.validateReferenceConsistency
        IN  /\ (checked /\ ~wellFormed) => (~last.ok /\ ConsistencyFailure(last.msg))
            /\ (~checked \/ wellFormed) =>
                  /\ ~last.pre.opts.validateSchemas => last.ok
                  /\ ~last.ok => ~ConsistencyFailure(last.msg)

\* C6 witness: x.json with key x and a version that is no semver.
C6_Witness ==
    /\ NewConventionCase /\ ~last.ok
    /\ last.pre.opts.validateReferenceConsistency
    /\ GetS(TargetContent(last.ref, last.dom), "version") = VBad

LastValidateSchema == last.op = "validateComponentSchema"
DomainMismatchError(msg) == StartsWith(msg, <<"Domain mismatch: expected '">>)

\* C7 as stated: a component whose domain is set and differs from the
\* resolver's domain fails with a domain mismatch, on a fresh instance too.
C7_AnyInstance ==
    (/\ LastValidateSchema
     /\ HasKey(last.doc, "domain")
     /\ GetS(last.doc, "domain") # last.pre.currentDomain)
    => (~last.ok /\ DomainMismatchError(last.msg))

\* C7 amended: when a domain is bound, a component whose domain is set and
\* differs from it fails with a domain mismatch, for every flow and before
\* any schema is looked up or checked.
C7_DomainMismatch ==
    (/\ LastValidateSchema
     /\ last.pre.currentDomain # Null
     /\ HasKey(last.doc, "domain")
     /\ GetS(last.doc, "domain") # last.pre.currentDomain)
    => /\ ~last.ok /\ DomainMismatchError(last.msg)
       /\ last.io = << <<"schema">> \o last.ref >>

\* C7 witness: a sys-schemas component of another domain than the bound one.
C7_Witness ==
    /\ LastValidateSchema /\ ~last.ok
    /\ last.pre.currentDomain = Core
    /\ GetS(last.doc, "domain") = Billing
    /\ GetS(last.doc, "flow") = <<"sys-schemas">>

\* The identifiers of the objects of a JSON value, at any depth, that are
\* shaped like a reference.
RECURSIVE ShapedIdentifiers(_)
ShapedIdentifiers(v) ==
    (IF v.t = "obj" /\ detectReferenceFormat(v) # NoRef
     THEN {detectReferenceFormat(v).identifier} ELSE {})
    \cup UNION {ShapedIdentifiers(v.kids[i].v) : i \in 1..Len(v.kids)}

LastWalk == last.op = "validateAllReferences"
InSchema(doc) == ShapedIdentifiers(Get(Get(doc, "attributes"), "schema"))

\* C8: walking a sys-schemas component, no object inside attributes.schema
\* is classified: none is resolved, none is in resolvedRefs or errors, and
\* valid is false only for an object outside the subtree.
C8_SchemaSubtree ==
    (LastWalk /\ GetS(last.doc, "flow") = <<"sys-schemas">>) =>
        LET res == last.results
        IN  /\ Len(res.visited) = Len(res.resolvedRefs)
            /\ \A i \in 1..Len(res.visited) :
                  /\ ~StartsWith(res.visited[i], <<"attributes", "schema">>)
                  /\ res.resolvedRefs[i].ref \notin InSchema(last.doc)
            /\ \A i \in 1..Len(res.errors) : res.errors[i].ref \notin InSchema(last.doc)
            /\ \A i \in 1..Len(last.io) :
                  \A id \in InSchema(last.doc) : ~Includes(last.io[i], id)
            /\ ~res.valid => res.errors # <<>>

\* C8 witness: a schema component with a ref and a plain reference inside
\* attributes.schema, walked to the end with references outside it resolved.
C8_Witness ==
    /\ LastWalk /\ GetS(last.doc, "flow") = <<"sys-schemas">>
    /\ Cardinality(InSchema(last.doc)) >= 2
    /\ Len(last.results.resolvedRefs) >= 2
    /\ last.results.valid

BuildDomain == GetS(build.config, "domain")

\* A resolver as a build constructs it, with nothing cached.
BuildResolver ==
    loadValidationConfig(NewResolver(RState, GateOptions(build.config)), build.config)

\* The places of a JSON value, as member positions from the root, that hold
\* an object with a string ref and are not inside another such object.
RECURSIVE RefLocations(_)
RefLocations(v) ==
    IF v.t = "obj" /\ Get(v, "ref").t = "str" /\ Truthy(Get(v, "ref")) THEN {<<>>}
    ELSE UNION {{<<i>> \o p : p \in RefLocations(v.kids[i].v)} : i \in 1..Len(v.kids)}

RECURSIVE At(_, _)
At(v, p) == IF p = <<>> THEN v ELSE At(v.kids[Head(p)].v, Tail(p))

\* Some object of the value has a member named ref.
RECURSIVE HasRefKey(_)
HasRefKey(v) ==
    \/ HasKey(v, "ref")
    \/ \E i \in 1..Len(v.kids) : HasRefKey(v.kids[i].v)

\* Those of key, version, domain, flow that a component defines.
ExpectedPayload(component) ==
    LET names == SelectSeq(<<"key", "version", "domain", "flow">>,
                           LAMBDA k : HasKey(component, k))
    IN  Obj([i \in 1..Len(names) |-> KV(names[i], Get(component, names[i]))])

\* The files a reference build has transformed and written so far.
ReferenceWritten ==
    IF build.pc # "idle" /\ build.type = "reference"
    THEN {build.written[n] : n \in 1..Len(build.written)} ELSE {}

\* C9 as stated, of the builds that validate: in every file a reference
\* build writes, every place that held a ref-shaped object holds an object
\* with exactly the keys key, version, domain, flow, and no ref key is left.
C9_OnlyPayloads ==
    \A w \in ReferenceWritten :
        ~build.skip =>
        /\ \A p \in RefLocations(disk[w.src]) :
              Keys(At(build.out.files[w.dst], p)) = {"key", "version", "domain", "flow"}
        /\ ~HasRefKey(build.out.files[w.dst])

\* C9 amended: in every file a reference build writes, a place that held a
\* ref-shaped object holds, when the ref resolves, the object made of those
\* of key, version, domain, flow that the resolved component defines, and
\* when the ref does not resolve the source object unchanged.
C9_RoundTrip ==
    \A w \in ReferenceWritten :
        \A p \in RefLocations(disk[w.src]) :
            \E ref \in {GetS(At(disk[w.src], p), "ref")} :
            \E r \in {resolveRef(BuildResolver, ref, BuildDomain)} :
                At(build.out.files[w.dst], p) =
                    IF r.ok THEN ExpectedPayload(TargetContent(ref, BuildDomain))
                    ELSE At(disk[w.src], p)

\* C9 witness: a validated reference build that ended well, in which a
\* ref was replaced by the four members and another ref was left as it was.
C9_Witness ==
    /\ build.pc = "done" /\ build.exit = "ok" /\ ~build.skip
    /\ \E w \in ReferenceWritten : \E p \in RefLocations(disk[w.src]) :
          Keys(At(build.out.files[w.dst], p)) = {"key", "version", "domain", "flow"}
    /\ \E w \in ReferenceWritten : \E p \in RefLocations(disk[w.src]) :
          At(build.out.files[w.dst], p) = At(disk[w.src], p)

\* Some JSON file under the components root does not pass the validation
\* of a build: it cannot be read, or its references are not all valid.
SomeComponentInvalid ==
    \E f \in DOMAIN disk :
        /\ StartsWith(f, ComponentsRoot(build.config) \o <<"/">>)
        /\ IsJsonName(f)
        /\ \/ disk[f].t = "raw"
           \/ ~validateAllReferences(BuildResolver, disk[f], BuildDomain).results.valid

\* C10: in a run of build or publish that validates, when some component
\* fails the validation the output directory stays as it was before the run
\* (it is not removed and nothing is written to it) and the run ends in error.
C10_FailClosed ==
    (/\ build.pc # "idle" /\ ~build.skip
     /\ build.config # Undef
     /\ SomeComponentInvalid)
    => /\ build.out = build.prev
       /\ build.pc \in {"validate", "done"}
       /\ build.pc = "done" => build.exit = "error"

\* C10 witness: the build command checked every file, found one not valid,
\* and ended in error with the previous output still in place.
C10_Witness ==
    /\ build.pc = "done" /\ build.exit = "error"
    /\ build.cmd = "build" /\ ~build.skip
    /\ build.totalFiles = Len(build.jsonFiles)
    /\ build.validFiles < build.totalFiles
    /\ build.prev = StaleOutput /\ build.out = StaleOutput

\* The JSON files under the components root.
ComponentFiles ==
    {f \in DOMAIN disk : /\ StartsWith(f, ComponentsRoot(build.config) \o <<"/">>)
                         /\ IsJsonName(f)}

\* A run that validates has removed or written the output directory.
OutputTouched ==
    /\ build.pc # "idle" /\ ~build.skip
    /\ build.config # Undef
    /\ build.out # build.prev

\* C11: a run that validates touches the output only if every JSON file
\* under the components root passes the component validation (domain and
\* schema of the file itself) and the validation of its references.
C11_GateCoverage ==
    OutputTouched =>
        \A f \in ComponentFiles :
            /\ disk[f].t # "raw"
            /\ validateComponentSchema(BuildResolver, disk[f], f).ok
            /\ validateAllReferences(BuildResolver, disk[f], BuildDomain).results.valid

\* The number of resolvedRefs entries with the given status.
Entries(resolvedRefs, status) ==
    Cardinality({i \in 1..Len(resolvedRefs) : resolvedRefs[i].status = status})

\* C12: in the result of validateAllReferences, total is the number of
\* resolvedRefs entries and the sum of successful, failed and skipped;
\* failed is the number of errors and of the entries with status error;
\* valid is true exactly when failed is 0.
C12_Aggregate ==
    LastWalk =>
        LET res == last.results
            d == res.validationDetails
        IN  /\ d.total = Len(res.resolvedRefs)
            /\ d.total = d.successful + d.failed + d.skipped
            /\ d.successful = Entries(res.resolvedRefs, "success")
            /\ d.failed = Len(res.errors)
            /\ d.failed = Entries(res.resolvedRefs, "error")
            /\ res.valid <=> d.failed = 0

\* C12 witness: a walk in which some references resolved and others failed.
C12_Witness ==
    /\ LastWalk
    /\ last.results.validationDetails.successful >= 2
    /\ last.results.validationDetails.failed >= 2
    /\ ~last.results.valid

\* What the rewriting of a document is to produce: an object with a string
\* ref becomes the members key, version, domain, flow that the component it
\* names defines, or stays as it is when the ref does not resolve; every
\* other value is kept, its members rewritten.
RECURSIVE Rewritten(_)
Rewritten(v) ==
    IF v.t = "obj" /\ Get(v, "ref").t = "str" /\ Truthy(Get(v, "ref"))
    THEN IF resolveRef(BuildResolver, GetS(v, "ref"), BuildDomain).ok
         THEN ExpectedPayload(TargetContent(GetS(v, "ref"), BuildDomain))
         ELSE v
    ELSE IF v.t \in {"obj", "arr"}
    THEN [v EXCEPT !.kids = [i \in 1..Len(v.kids) |->
                                KV(v.kids[i].k, Rewritten(v.kids[i].v))]]
    ELSE v

\* The files under the components root, JSON or not.
DomainFiles ==
    {f \in DOMAIN disk : StartsWith(f, ComponentsRoot(build.config) \o <<"/">>)}

\* The place in the output of a file of the components root.
OutputPath(f) ==
    PathJoin(BuildDomain, SubStr(f, Len(ComponentsRoot(build.config)) + 2, Len(f)))

\* A runtime build has reached its files.
RuntimeCopying ==
    /\ build.pc \in {"components", "done"}
    /\ build.type = "runtime"
    /\ build.work # <<>>

ListedOnDisk ==
    LET exports == Get(build.config, "exports")
        dir(c) == IF Truthy(Get(Get(build.config, "paths"), c))
                  THEN GetS(Get(build.config, "paths"), c) ELSE <<c>>
    IN  {f \in DOMAIN disk :
            \E i \in 1..Len(exports.kids) :
                /\ exports.kids[i].v.t = "arr"
                /\ \E n \in 1..Len(exports.kids[i].v.kids) :
                      f = PathJoin(ComponentsRoot(build.config),
                                   PathJoin(dir(exports.kids[i].k),
                                            exports.kids[i].v.kids[n].v.s))}

\* The component files of the output: all but the two descriptors.
OutputComponents == DOMAIN build.out.files \ {ConfigPath, PackagePath}

\* A reference build has prepared the output directory.
ReferenceBuilding ==
    /\ build.pc \in {"components", "done"}
    /\ build.type = "reference"
    /\ build.out # build.prev

FileFails(f) ==
    \/ disk[f].t = "raw"
    \/ ~validateComponentSchema(BuildResolver, disk[f], f).ok
    \/ /\ build.resolveRefs
       /\ ~validateAllReferences(BuildResolver, disk[f], BuildDomain).results.valid

\* C15: once the validate command has its file list, it goes through the
\* files one by one, in order, each once, whatever happened to the files
\* before; totalFiles counts them, validFiles <= totalFiles and
\* validRefs <= totalRefs; it ends after the last file, and in error
\* exactly when some file of the list does not pass.
C15_PartialFailure ==
    (build.cmd = "validate" /\ build.listed) =>
        /\ build.seen = SubSeq(build.jsonFiles, 1, build.i - 1)
        /\ build.totalFiles = build.i - 1
        /\ build.validFiles <= build.totalFiles
        /\ build.validRefs <= build.totalRefs
        /\ build.pc = "done" =>
              /\ build.totalFiles = Len(build.jsonFiles)
              /\ build.exit = "error" <=>
                    \E n \in 1..Len(build.jsonFiles) : FileFails(build.jsonFiles[n])

\* C15 witness: a run over the whole tree with --resolve-refs whose first
\* file passes, whose second cannot be read and whose third is processed
\* all the same, with a reference that fails; the run ends in error.
C15_Witness ==
    /\ build.cmd = "validate" /\ build.pc = "done" /\ build.exit = "error"
    /\ build.resolveRefs
    /\ Len(build.seen) = 3
    /\ ~FileFails(build.seen[1])
    /\ disk[build.seen[2]].t = "raw"
    /\ build.schemaValidationPassed = 2
    /\ build.validRefs < build.totalRefs

\* The objects of a document that are shaped like a reference, in the order
\* of the traversal: an object before its members, the members in order,
\* nothing below a member named ref and nothing inside attributes.schema.
RECURSIVE ShapedObjects(_, _)
RECURSIVE ShapedMembers(_, _, _)
ShapedMembers(v, i, context) ==
    IF i > Len(v.kids) THEN <<>>
    ELSE (IF v.t = "arr" THEN ShapedObjects(v.kids[i].v, context)
          ELSE IF v.kids[i].k # "ref"
          THEN ShapedObjects(v.kids[i].v, ChildContext(context, v.kids[i].k))
          ELSE <<>>)
         \o ShapedMembers(v, i + 1, context)

ShapedObjects(v, context) ==
    IF v.t = "arr" THEN ShapedMembers(v, 1, context)
    ELSE IF v.t # "obj" \/ context.isInSchemaDefinition THEN <<>>
    ELSE (IF detectReferenceFormat(v) # NoRef THEN <<v>> ELSE <<>>)
         \o ShapedMembers(v, 1, context)

\* The resolver as it was when the last walk began.
WalkResolver ==
    [RState EXCEPT !.refCache = last.pre.refCache,
                   !.opts = last.pre.opts,
                   !.currentDomain = IF last.pre.currentDomain = Null
                                     THEN last.dom ELSE last.pre.currentDomain]

\* One reference-shaped object, checked on its own.
Alone(obj) ==
    IF detectReferenceFormat(obj).format = "plain"
    THEN validatePlainReference(WalkResolver, obj, last.dom)
    ELSE resolveRef(WalkResolver, detectReferenceFormat(obj).identifier, last.dom)

\* C16 as stated: in the result of a walk nothing is recorded after a
\* reference that failed.
C16_FailFast ==
    LastWalk =>
        \A i \in 1..Len(last.results.resolvedRefs) :
            last.results.resolvedRefs[i].status = "error"
                => i = Len(last.results.resolvedRefs)

\* C16 amended: a walk records every reference-shaped object of the
\* document, in traversal order, whether or not an earlier one failed, and
\* each entry is an error exactly when that reference fails on its own.
C16_ContinuesAfterFailure ==
    LastWalk =>
        LET rr == last.results.resolvedRefs
            shaped == ShapedObjects(last.doc, NoContext)
        IN  /\ Len(rr) = Len(shaped)
            /\ \A i \in 1..Len(rr) :
                  /\ rr[i].ref = detectReferenceFormat(shaped[i]).identifier
                  /\ rr[i].status = "error" <=> ~Alone(shaped[i]).ok

\* C16 witness: a walk in which a reference failed and a later reference of
\* the same document was read from its file and recorded as resolved.
C16_Witness ==
    /\ LastWalk
    /\ \E i, j \in 1..Len(last.results.resolvedRefs) :
          /\ i < j
          /\ last.results.resolvedRefs[i].status = "error"
          /\ last.results.resolvedRefs[j].status = "success"
          /\ ComponentRead(last.io, last.results.resolvedRefs[j].ref, last.dom)

\* The second of two runs of the same command on the same project has ended.
SecondRunDone ==
    /\ build.pc = "done" /\ build.run = 2
    /\ build.cmd \in {"build", "publish"}

\* A package descriptor without the time of its build.
WithoutTimestamp(descriptor) ==
    SetKey(descriptor, "vnext", DelKey(Get(descriptor, "vnext"), "buildTimestamp"))

\* C17 as stated: the second run returns the validation results of the
\* first and leaves the output directory with the very same files.
C17_IdenticalOutput ==
    SecondRunDone =>
        /\ build.validations = build.first.validations
        /\ build.out = build.first.out

\* C17 amended: the second run returns the validation results of the first,
\* in the same order, and leaves the same files in the output directory,
\* each with the same content, but for the package descriptor, which is
\* the same only up to the time of the build it records.
C17_Deterministic ==
    SecondRunDone =>
        /\ build.validations = build.first.validations
        /\ build.out.exists = build.first.out.exists
        /\ DOMAIN build.out.files = DOMAIN build.first.out.files
        /\ \A f \in DOMAIN build.out.files :
              IF f = PackagePath
              THEN /\ WithoutTimestamp(build.out.files[f])
                        = WithoutTimestamp(build.first.out.files[f])
                   /\ Get(Get(build.out.files[f], "vnext"), "buildTimestamp") = Stamp
              ELSE build.out.files[f] = build.first.out.files[f]

\* C17 witness: two validated builds that ended well, with references
\* checked and rewritten in both, whose package descriptors differ.
C17_Witness ==
    /\ SecondRunDone /\ build.exit = "ok" /\ ~build.skip
    /\ \E n \in 1..Len(build.validations) :
          build.validations[n].validationDetails.successful >= 2
    /\ build.written # <<>>
    /\ PackagePath \in DOMAIN build.out.files
    /\ build.out.files[PackagePath] # build.first.out.files[PackagePath]

\* The first file or package step of a resolution of ref.
FirstStep(ref, dom) ==
    IF parseRef(ref).isLocal THEN <<"pathExists">> \o PathJoin(dom, ref)
    ELSE <<"pathExists">> \o parseRef(ref).packageName

\* How many times the last call began to resolve ref from files or packages.
Attempts(ref) ==
    Cardinality({i \in 1..Len(last.io) : last.io[i] = FirstStep(ref, last.dom)})

\* How many times the last call came upon ref.
Encounters(ref) ==
    IF LastResolve THEN (IF last.ref = ref THEN 1 ELSE 0)
    ELSE Cardinality({i \in 1..Len(last.results.resolvedRefs) :
                         last.results.resolvedRefs[i].ref = ref})

\* The last call resolved ref, at one of its encounters.
Resolved(ref) ==
    IF LastResolve THEN last.ref = ref /\ last.ok
    ELSE \E i \in 1..Len(last.results.resolvedRefs) :
            /\ last.results.resolvedRefs[i].ref = ref
            /\ last.results.resolvedRefs[i].status = "success"

SysSchemaPassed ==
    /\ LastValidateSchema
    /\ GetS(last.doc, "flow") = <<"sys-schemas">>
    /\ last.ok

\* (a): the five members are present, the versions are semver, the flow is
\* a recognized one.
GeneralTemplateHolds(component) ==
    /\ \A k \in {"key", "version", "domain", "flow", "flowVersion"} :
          HasKey(component, k) /\ GetS(component, k) # <<>>
    /\ SemverValid(GetS(component, "version"))
    /\ SemverValid(GetS(component, "flowVersion"))
    /\ GetS(component, "flow") \in
          {<<"sys-tasks">>, <<"sys-flows">>, <<"sys-functions">>, <<"sys-views">>,
           <<"sys-schemas">>, <<"sys-extensions">>}

\* (b): a component kind.
KindName(type) ==
    type.t = "str" /\ type.s \in {<<"workflow">>, <<"task">>, <<"function">>,
                                   <<"view">>, <<"schema">>, <<"extension">>}

\* (c): an object that carries the five members, with a json-schema.org
\* URI as $schema and an https URI as $id.
SchemaDocumentHolds(schema) ==
    /\ schema.t = "obj"
    /\ \A k \in {"$schema", "$id", "title", "description", "type"} :
          HasKey(schema, k) /\ Truthy(Get(schema, k))
    /\ StartsWith(GetS(schema, "$schema"), <<"https://", "json-schema.org/">>)
    /\ StartsWith(GetS(schema, "$id"), <<"https://">>)

\* C19 as stated: a sys-schemas component passes only if (a) holds, its
\* attributes.type is a component kind and its attributes.schema is a
\* schema document.
C19_AllRequired ==
    SysSchemaPassed =>
        /\ GeneralTemplateHolds(last.doc)
        /\ KindName(Get(Get(last.doc, "attributes"), "type"))
        /\ SchemaDocumentHolds(Get(Get(last.doc, "attributes"), "schema"))

\* C19 amended: a sys-schemas component passes only if (a) holds, its
\* attributes.type, when it has one, is a component kind, and its
\* attributes.schema, when it has one, is a schema document; whether it
\* passes or not, the schema of its component type is not looked up.
C19_SysSchema ==
    /\ SysSchemaPassed =>
          LET attributes == Get(last.doc, "attributes")
          IN  /\ GeneralTemplateHolds(last.doc)
              /\ HasKey(attributes, "type") => KindName(Get(attributes, "type"))
              /\ HasKey(attributes, "schema") =>
                    SchemaDocumentHolds(Get(attributes, "schema"))
    /\ (LastValidateSchema /\ GetS(last.doc, "flow") = <<"sys-schemas">>) =>
          last.io = << <<"schema">> \o last.ref >>

\* C19 witness: a sys-schemas component filed under Tasks/ that passes
\* with a kind as attributes.type and without attributes.schema.
C19_Witness ==
    /\ SysSchemaPassed
    /\ detectComponentType(last.ref) = "task"
    /\ KindName(Get(Get(last.doc, "attributes"), "type"))
    /\ ~HasKey(Get(last.doc, "attributes"), "schema")

\* The string is @<scope>/<name>/<rest>, its two first "/" at i and j, with
\* scope, name and rest not empty.
ExternalForm(ref, i, j) ==
    /\ ref[1] = "@"
    /\ 2 < i /\ i + 1 < j /\ j < Len(ref)
    /\ ref[i] = "/" /\ ref[j] = "/"
    /\ \A n \in 2..(j - 1) : n # i => ref[n] # "/"

\* The name ends with .<major>.<minor>.<patch>.json, the dots before the
\* three numbers at a, b and c.
VersionSuffix(name, a, b, c) ==
    LET e == Len(name) - 1
        number(from, to) == /\ from <= to
                            /\ \A n \in from..to : name[n] \in Digits
    IN  /\ a < b /\ b < c /\ c < e
        /\ name[a] = "." /\ name[b] = "." /\ name[c] = "."
        /\ name[e] = "." /\ name[Len(name)] = "json"
        /\ number(a + 1, b - 1) /\ number(b + 1, c - 1) /\ number(c + 1, e - 1)

\* The version a file path is to give: the three numbers of the suffix of
\* its file name, Null when the file name has no such suffix.
VersionOf(filePath) ==
    LET name == Basename(filePath)
        at == {t \in (1..Len(name)) \X (1..Len(name)) \X (1..Len(name)) :
                  VersionSuffix(name, t[1], t[2], t[3])}
    IN  IF at = {} THEN Null
        ELSE LET t == CHOOSE t \in at : TRUE
             IN  SubStr(name, t[1] + 1, Len(name) - 2)

\* C20: parseRef changes nothing and returns: for a string that does not
\* begin with "@", a local reference whose file path is the string; for
\* @<scope>/<name>/<rest>, an external reference to package @<scope>/<name>
\* and file path <rest>; for any other string, a format error; and as
\* version the numbers of the .<major>.<minor>.<patch>.json suffix of the
\* file name, Null when it has none.
C20_ParseRef ==
    last.op = "parseRef" =>
        LET ref == last.ref
            parsed == last.val
            form == {t \in (1..Len(ref)) \X (1..Len(ref)) : ExternalForm(ref, t[1], t[2])}
        IN  /\ <<refCache, currentDomain, opts>>
                  = <<last.pre.refCache, last.pre.currentDomain, last.pre.opts>>
            /\ last.io = <<>>
            /\ Cardinality(form) <= 1
            /\ (ref = <<>> \/ ref[1] # "@") =>
                  /\ last.ok /\ parsed.isLocal
                  /\ parsed.packageName = Null
                  /\ parsed.filePath = ref
            /\ (ref # <<>> /\ ref[1] = "@") =>
                  /\ last.ok <=> form # {}
                  /\ \A t \in form :
                        /\ ~parsed.isLocal
                        /\ parsed.packageName = SubStr(ref, 1, t[2] - 1)
                        /\ parsed.filePath = SubStr(ref, t[2] + 1, Len(ref))
                  /\ ~last.ok =>
                        StartsWith(last.msg, <<"Invalid reference format: ">>)
            /\ last.ok => parsed.version = VersionOf(parsed.filePath)

\* C20 witness: an external reference whose file name carries a version
\* with a number of two digits.
C20_Witness ==
    /\ last.op = "parseRef" /\ last.ok
    /\ ~last.val.isLocal
    /\ last.val.packageName = <<"@", "x", "/", "x">>
    /\ last.val.version = <<"1", "2", ".", "0", ".", "1">>

FileNotFound(msg) == Includes(msg, <<"Local file not found: ">>)

\* C21: in the validation of a build, a local ref whose file exists under
\* the components root (paths.componentsRoot, else the domain) does not
\* fail as not found.
C21_DomainRoot ==
    build.pc \notin {"none", "idle"} =>
        \A n \in 1..Len(build.validations) :
            LET rr == build.validations[n].resolvedRefs
            IN  \A i \in 1..Len(rr) :
                    (/\ rr[i].format = "local"
                     /\ PathJoin(ComponentsRoot(build.config), rr[i].ref) \in DOMAIN disk)
                    => ~FileNotFound(rr[i].error)

\* The resolver as it was before the last call.
Before ==
    [RState EXCEPT !.refCache = last.pre.refCache,
                   !.currentDomain = last.pre.currentDomain,
                   !.opts = last.pre.opts,
                   !.compiledValidators = last.pre.compiledValidators]

\* The directory part of a path.
Dirname(p) == SubStr(p, 1, LastSlash(p))

\* What decides the outcome of a component validation: the domain, the
\* template of a schema component, the schema of the component's type when
\* there is one.
StructurallyValid(S, component, type) ==
    LET clean == cleanMetadataFields(component)
        readable == type \in DOMAIN schemaDir /\ schemaDir[type] # NotJson
        schema == IF type \in DOMAIN S.compiledValidators
                  THEN S.compiledValidators[type]
                  ELSE makeVersionOptionalInSchema(schemaDir[type])
    IN  /\ ~(/\ HasKey(clean, "domain") /\ S.currentDomain # Null
             /\ GetS(clean, "domain") # S.currentDomain)
        /\ IF GetS(clean, "flow") = <<"sys-schemas">>
           THEN validateSysSchemaComponent(clean) = <<>>
           ELSE \/ type \notin DOMAIN S.compiledValidators /\ ~readable
                \/ /\ schema.required \subseteq Keys(clean)
                   /\ Keys(clean) \subseteq schema.properties

\* C22: validateComponentSchema succeeds exactly when the component is
\* structurally valid, whatever the business checks find, and with any
\* other base name of the file it would have ended the same way.
C22_WarningsOnly ==
    LastValidateSchema =>
        /\ last.ok <=> StructurallyValid(Before, last.doc, detectComponentType(last.ref))
        /\ \A filePath \in RulePaths :
              Dirname(filePath) = Dirname(last.ref) =>
                  validateComponentSchema(Before, last.doc, filePath).ok = last.ok

\* C22 witness: a component filed under another name than its key, with a
\* malformed key and version, passed the schema of its type with two
\* warnings.
C22_Witness ==
    /\ LastValidateSchema /\ last.ok
    /\ last.ref = RefNew
    /\ GetS(last.doc, "key") = <<"BAD KEY">>
    /\ GetS(last.doc, "version") = VBad
    /\ \E i \in 1..Len(last.io) :
          /\ Len(last.io[i]) = 3
          /\ last.io[i][1] = "warnings"

\* The positions of the log at which a step of the given kind is recorded.
Steps(io, step) == {i \in 1..Len(io) : io[i] = step}

\* A resolveRef of a ref that was not cached and whose file was read.
ContentRead ==
    /\ LastResolve
    /\ last.ref \notin DOMAIN last.pre.refCache
    /\ TargetAvailable(last.ref, last.dom)

\* C23: resolveRef checks the content it has read for consistency first
\* and only when validateReferenceConsistency is enabled, then against the
\* schema only when validateSchemas is enabled and the first check did not
\* fail, and caches the ref only when no enabled check failed.
C23_StepOrder ==
    ContentRead =>
        LET content == TargetContent(last.ref, last.dom)
            consistent == validateReferenceConsistency(last.ref, content, LastParsed) = <<>>
            structural ==
                StructurallyValid([Before EXCEPT !.currentDomain = currentDomain],
                                  content, detectComponentType(LastParsed.filePath))
            consistency == Steps(last.io, <<"consistency">> \o last.ref)
            schema == Steps(last.io, <<"schema">> \o LastParsed.filePath)
            first == last.pre.opts.validateReferenceConsistency
            second == last.pre.opts.validateSchemas
        IN  /\ Cardinality(consistency) = IF first THEN 1 ELSE 0
            /\ Cardinality(schema) = IF second /\ (first => consistent) THEN 1 ELSE 0
            /\ \A i \in consistency, j \in schema : i < j
            /\ (first /\ ~consistent) => (~last.ok /\ ConsistencyFailure(last.msg))
            /\ last.ok <=> ((first => consistent) /\ (second => structural))
            /\ last.ref \in DOMAIN refCache <=> last.ok
            /\ last.ok => /\ refCache[last.ref] = last.val
                          /\ cleanMetadataFields(last.val) = content

\* C23 witness: with both checks enabled, a file that does not match its
\* name and is of another domain fails with the consistency error, and the
\* schema check is not run.
C23_Witness ==
    /\ ContentRead /\ ~last.ok
    /\ last.pre.opts.validateReferenceConsistency /\ last.pre.opts.validateSchemas
    /\ GetS(TargetContent(last.ref, last.dom), "key") = <<"y">>
    /\ GetS(TargetContent(last.ref, last.dom), "domain") # currentDomain
    /\ ConsistencyFailure(last.msg)
    /\ Steps(last.io, <<"schema">> \o LastParsed.filePath) = {}

\* The places of the reference-shaped objects of a document, in traversal
\* order, leaving out what lies below a member named ref and, in a
\* sys-schemas component, the subtree of attributes.schema.
RECURSIVE ExpectedPlaces(_, _, _)
RECURSIVE ExpectedBelow(_, _, _, _)
ExpectedBelow(v, i, path, sys) ==
    IF i > Len(v.kids) THEN <<>>
    ELSE LET place == Append(path, IF v.t = "arr" THEN "[]" ELSE v.kids[i].k)
         IN  (IF v.t = "obj" /\ v.kids[i].k = "ref" THEN <<>>
              ELSE IF sys /\ place = <<"attributes", "schema">> THEN <<>>
              ELSE ExpectedPlaces(v.kids[i].v, place, sys))
             \o ExpectedBelow(v, i + 1, path, sys)

ExpectedPlaces(v, path, sys) ==
    IF v.t \notin {"obj", "arr"} THEN <<>>
    ELSE (IF v.t = "obj" /\ detectReferenceFormat(v) # NoRef THEN <<path>> ELSE <<>>)
         \o ExpectedBelow(v, 1, path, sys)

\* C24: a walk classifies every reference-shaped object of the document,
\* once, except those inside attributes.schema of a sys-schemas component.
C24_SuppressionScope ==
    LastWalk =>
        /\ Len(last.results.resolvedRefs) = Len(last.results.visited)
        /\ last.results.visited
              = ExpectedPlaces(last.doc, <<>>, GetS(last.doc, "flow") = <<"sys-schemas">>)

\* The component without the three fields a resolution adds.
Stripped(component) ==
    Obj(SelectSeq(component.kids,
                  LAMBDA m : m.k \notin {"_resolvedFrom", "_resolvedAt",
                                         "_packageVersion"}))

\* C25: validateComponentSchema judges the component without its three
\* provenance fields and with every other field, and leaves the component
\* it was given as it was; what resolveRef then caches and returns is the
\* file's content with its provenance fields.
C25_NonMutating ==
    /\ LastValidateSchema =>
          /\ last.ok <=> StructurallyValid(Before, Stripped(last.doc),
                                           detectComponentType(last.ref))
          /\ last.ok => last.val = last.doc
    /\ (LastResolve /\ last.ok /\ last.ref \notin DOMAIN last.pre.refCache) =>
          /\ refCache[last.ref] = last.val
          /\ {"_resolvedFrom", "_resolvedAt"} \subseteq Keys(last.val)
          /\ ~LastParsed.isLocal => "_packageVersion" \in Keys(last.val)
          /\ Stripped(last.val) = TargetContent(last.ref, last.dom)

\* C25 witness: an external component was checked against the schema of
\* its type, which allows no provenance field, and is cached with its three
\* provenance fields.
C25_Witness ==
    /\ LastResolve /\ last.ok /\ last.ref \notin DOMAIN last.pre.refCache
    /\ last.pre.opts.validateSchemas
    /\ "task" \in DOMAIN compiledValidators
    /\ Steps(last.io, <<"schema">> \o LastParsed.filePath) # {}
    /\ {"_resolvedFrom", "_resolvedAt", "_packageVersion"}
          \subseteq Keys(refCache[last.ref])

\* The objects and arrays of a JSON value with their places.
RECURSIVE Nodes(_, _)
Nodes(v, path) ==
    IF v.t \notin {"obj", "arr"} THEN {}
    ELSE {[path |-> path, v |-> v]}
         \cup UNION {Nodes(v.kids[i].v,
                           Append(path, IF v.t = "arr" THEN "[]" ELSE v.kids[i].k)) :
                     i \in 1..Len(v.kids)}

\* The place lies below no member named ref and below no member named
\* schema that is itself below a member named attributes.
Reached(path) ==
    \A j \in 1..Len(path) :
        /\ path[j] # "ref"
        /\ path[j] = "schema" => \A n \in 1..(j - 1) : path[n] # "attributes"

\* The document has truthy key, version, domain and flow, and no ref.
PlainRoot(doc) ==
    /\ \A k \in {"key", "version", "domain", "flow"} :
          Get(doc, k).t \in {"obj", "arr", "true"} \/ GetS(doc, k) # <<>>
    /\ ~HasKey(doc, "ref")

\* C26: a document with truthy key, version, domain and flow and no ref is
\* itself the first entry of resolvedRefs, as a plain reference, and is an
\* error (valid false) exactly when its version is no semver or its key
\* does not match the key pattern; and every reference-shaped object
\* reached through members not named ref is recorded, those below another
\* reference-shaped object too.
C26_RootIsReference ==
    LastWalk =>
        LET res == last.results
            doc == last.doc
            places == {res.visited[i] : i \in 1..Len(res.visited)}
        IN  /\ PlainRoot(doc) =>
                  /\ res.validationDetails.total >= 1
                  /\ res.visited[1] = <<>>
                  /\ res.resolvedRefs[1].format = "plain"
                  /\ res.resolvedRefs[1].ref
                        = GetS(doc, "domain") \o <<"/">> \o GetS(doc, "flow") \o <<"/">>
                          \o GetS(doc, "key") \o <<".">> \o GetS(doc, "version")
                  /\ res.resolvedRefs[1].status = "error"
                        <=> (~SemverValid(GetS(doc, "version"))
                             \/ ~KeyPatternOk(GetS(doc, "key")))
                  /\ res.resolvedRefs[1].status = "error" => ~res.valid
            /\ \A n \in Nodes(doc, <<>>) :
                  (n.v.t = "obj" /\ detectReferenceFormat(n.v) # NoRef /\ Reached(n.path))
                  => n.path \in places

\* C26 witness: the walk of a component with a malformed key and version:
\* the component itself is recorded as a failed plain reference, and so
\* are the object with a ref below it and the one below that.
C26_Witness ==
    /\ LastWalk /\ PlainRoot(last.doc)
    /\ ~last.results.valid
    /\ last.results.resolvedRefs[1].status = "error"
    /\ last.results.resolvedRefs[1].format = "plain"
    /\ \E i, j \in 2..Len(last.results.visited) :
          /\ last.results.visited[i] = <<"task">>
          /\ last.results.visited[j] = <<"task", "fallback">>

\* The schema directory has no readable schema for the type of the path.
SchemaMissing(filePath) ==
    LET type == detectComponentType(filePath)
    IN  type \notin DOMAIN schemaDir \/ schemaDir[type] = NotJson

\* The component is no schema component and its domain, when it has one,
\* is the bound domain, when one is bound.
DomainMatches(component, domain) ==
    /\ GetS(component, "flow") # <<"sys-schemas">>
    /\ (HasKey(component, "domain") /\ domain # Null)
          => GetS(component, "domain") = domain

\* C27: when the schema of the type detected from the path cannot be
\* loaded, validateComponentSchema accepts every component of a matching
\* domain that is no schema component, without a business check and
\* without compiling a validator; resolveRef then caches such a component.
C27_SilentPass ==
    /\ (/\ LastValidateSchema
        /\ SchemaMissing(last.ref)
        /\ DomainMatches(last.doc, last.pre.currentDomain))
       => /\ last.ok
          /\ compiledValidators = last.pre.compiledValidators
          /\ \A i \in 1..Len(last.io) : last.io[i][1] # "warnings"
    /\ (/\ ContentRead
        /\ SchemaMissing(LastParsed.filePath)
        /\ DomainMatches(TargetContent(last.ref, last.dom), currentDomain)
        /\ last.pre.opts.validateReferenceConsistency
              => validateReferenceConsistency(last.ref, TargetContent(last.ref, last.dom),
                                              LastParsed) = <<>>)
       => /\ last.ok
          /\ last.ref \in DOMAIN refCache
          /\ compiledValidators = last.pre.compiledValidators

\* C27 witness: a task component without key and with a malformed version,
\* filed under Tasks/, is accepted because the task schema is not JSON.
C27_Witness ==
    /\ LastValidateSchema /\ last.ok
    /\ last.ref = RefNew
    /\ DOMAIN schemaDir # {} /\ SchemaMissing(last.ref)
    /\ ~HasKey(last.doc, "key")
    /\ GetS(last.doc, "version") = VBad

\* The refs the pre-build gate came upon in the files it has validated.
GateRefs ==
    {build.validations[n].resolvedRefs[i].ref :
        <<n, i>> \in {<<n, i>> \in (1..Len(build.validations)) \X (1..8) :
                         i <= Len(build.validations[n].resolvedRefs)}}

\* C28: in a run that validates, every ref the build transformer passes to
\* resolveRef is one the pre-build gate came upon in a file it validated:
\* the transformer attempts no ref the gate did not see.
C28_GateCoversTransformer ==
    ~build.skip =>
        \A n \in 1..Len(build.attempted) : build.attempted[n] \in GateRefs

\* What the invocations of ensurePackage that have ended returned.
Returned == {installs.returns[n] : n \in 1..Len(installs.returns)}

\* C29: an invocation of ensurePackage during which no other invocation for
\* the package was in progress returns the cache directory only when the
\* package is completely extracted in it, never a directory made by an
\* invocation that failed, and leaves no directory when it fails.
C29_AloneIsSafe ==
    \A r \in Returned :
        ~r.overlap =>
            /\ r.result = "dir" => r.content = "complete"
            /\ r.how = "cached" => r.madeBy \notin installs.failed
            /\ r.result = "error" => r.content = "absent"

\* A caller has invoked ensurePackage after all the others had ended: it
\* was returned the directory an invocation before had filled, or it threw
\* after one before it had thrown.
C29_Witness ==
    \E r, e \in Returned :
        /\ ~r.overlap /\ ~e.overlap
        /\ r.who # e.who
        /\ \/ r.how = "cached" /\ e.how = "downloaded" /\ e.result = "dir"
           \/ r.result = "error" /\ e.result = "error"

\* C29 as stated: in every interleaving, an invocation returns the cache
\* directory only when the package is completely extracted in it, and none
\* is returned, as cached, a directory made by an invocation that failed.
C29_EveryInterleaving ==
    \A r \in Returned :
        /\ r.result = "dir" => r.content = "complete"
        /\ r.how = "cached" => r.madeBy \notin installs.failed

\* The domain the resolver was bound to before the last call.
BoundBefore == last.pre.currentDomain

\* The last call failed on a domain mismatch against domain.
MismatchAgainst(domain) ==
    Includes(last.msg, <<"Domain mismatch: expected '">> \o domain \o <<"', found '">>)

\* C30: the domain a resolver is bound to is the one the last
\* loadValidationConfig read from a config that has one, or else the first
\* non-empty domain passed to resolveRef or validateAllReferences: a call
\* with another domain leaves it as it was.  A local file is looked up
\* under the domain of the call, and a domain mismatch is one against the
\* bound domain.
C30_StickyDomain ==
    /\ last.op \in {"resolveRef", "validateAllReferences"} =>
          currentDomain = IF BoundBefore # Null THEN BoundBefore ELSE last.dom
    /\ last.op = "loadValidationConfig" =>
          currentDomain = IF Truthy(Get(last.doc, "domain"))
                          THEN GetS(last.doc, "domain") ELSE BoundBefore
    /\ last.op \in {"validateComponentSchema", "new"} => currentDomain = BoundBefore
    /\ LastResolve /\ LastParsed.ok /\ LastParsed.isLocal
       /\ last.ref \notin DOMAIN last.pre.refCache =>
          /\ Attempts(last.ref) = 1
          /\ \A d \in Domains \cup {Null} :
                MismatchAgainst(d) =>
                   /\ d = currentDomain
                   /\ GetS(disk[PathJoin(last.dom, last.ref)], "domain") # d

\* A resolver bound to one domain was asked for a local ref under another:
\* the file was read under the domain of the call, its component is of that
\* domain, and the call failed on a mismatch against the bound domain.
C30_Witness ==
    /\ LastResolve /\ LastParsed.isLocal
    /\ BoundBefore # Null /\ last.dom # Null /\ last.dom # BoundBefore
    /\ currentDomain = BoundBefore
    /\ TargetAvailable(last.ref, last.dom)
    /\ GetS(disk[PathJoin(last.dom, last.ref)], "domain") = last.dom
    /\ MismatchAgainst(BoundBefore)
====
